---- MODULE Spec2Model ----
(***************************************************************************)
(* A model of the run orchestration engine of my-pr-reviewer (cli crate):  *)
(* the process executor and its retry policy (shell.rs), the monthly       *)
(* completion counter (shell.rs), the selection of the work list and the   *)
(* bounded run log (workflow.rs).                                          *)
(*                                                                         *)
(* Each component has its own variables and its own specification; a       *)
(* specification leaves the variables of the other components unchanged.   *)
(***************************************************************************)
EXTENDS FiniteSets, Integers, Sequences, TLC

VARIABLES
    \* run_workflow and run_single_pr_by_number: where the run is, the
    \* settings loaded, the EngineState and the RunSnapshot in memory and on
    \* disk, the locals of the run, and what is remembered of the runs
    wf_pc, settings, state, state_file, snapshot, snapshot_file, run, hist,
    \* run_shell_internal: the last call and what it returned
    sh_call, sh_result,
    \* run_with_retry_streaming: its arguments, locals and position
    rw_pc, rw_command, rw_retries, rw_delay, rw_stream,
    attempts, attempt, last_err, rw_return,
    \* history of one run_with_retry_streaming call: what each
    \* run_shell_internal invocation returned and each sleep's duration
    invocations, sleeps,
    \* run_workflow, the selection of the work list: the open PRs listed,
    \* the engine state's processed_pr_numbers, settings.max_prs_per_run,
    \* and new_prs
    sel_pc, open_prs, processed_pr_numbers, max_prs_per_run, new_prs,
    \* the monthly completion counter: the wall clock (in months), the
    \* process-wide COUNTER, the engine state's per-month mapping, and where
    \* execute_pr is between record and sync
    clock, counter, monthly_fixed_pr_numbers_by_month, cnt_pc,
    \* what the last counter call returned, and how often record returned
    \* true for each (month key, PR number)
    last_call, true_returns,
    \* RunSnapshot.log_lines, every line appended so far, the time of
    \* now(), and the messages the run logs
    log_lines, appended, utc_now, log_script,
    \* run_shell_internal in streaming mode: where the caller is, the call,
    \* how far each reader has read, the readers that ended, the channel,
    \* the two buffers, and what the call returned
    st_pc, st_call, st_pos, st_done, st_chan, st_buf, st_return,
    \* save_json and load_json_or_default: where the round trip is, the
    \* file saved to, the value saved, the content of the file, and the value
    \* loaded
    store_pc, store_kind, store_value, store_file, store_loaded,
    \* value_contains_login: whether a call has returned, the value and the
    \* login it was called with, and what it returned
    login_pc, login_value, login_arg, login_found,
    \* the Mutex of the monthly counter: the thread that holds it, whether it
    \* is poisoned, where each thread is in its call of the counter, and the
    \* call that returned last
    lock_owner, poisoned, threads, last_return

shellVars == <<sh_call, sh_result>>
retryVars == <<rw_pc, rw_command, rw_retries, rw_delay, rw_stream,
               attempts, attempt, last_err, rw_return, invocations, sleeps>>

selectVars == <<sel_pc, open_prs, processed_pr_numbers, max_prs_per_run,
                new_prs>>

counterVars == <<clock, counter, monthly_fixed_pr_numbers_by_month, cnt_pc,
                 last_call, true_returns>>
logVars == <<log_lines, appended, utc_now, log_script>>

None == [some |-> FALSE]
Some(v) == [some |-> TRUE, v |-> v]

Max(a, b) == IF a >= b THEN a ELSE b

(***************************************************************************)
(* Bounds of the inputs.                                                   *)
(***************************************************************************)
MaxRetries == 2
MaxDelay == 2
MaxPrNumber == 3
MaxPrsPerRun == 3
MaxCountedPr == 2
MaxRollovers == 2
MaxAppends == 502
MaxRuns == 2

Commands == {"git push", "codex review --base 'main'"}
Lines == {"warn"}

(***************************************************************************)
(* What the operating system does with one process invocation: the spawn   *)
(* fails, the wait fails, or the process ends with a status (an exit code, *)
(* or none when a signal ended it) having written lines to stdout and to   *)
(* stderr.                                                                 *)
(***************************************************************************)
ExitStatuses == {[code |-> None]} \cup {[code |-> Some(c)] : c \in 0..2}
OutputLines == {<<>>} \cup {<<l>> : l \in Lines}
ProcOutcomes ==
    {[kind |-> "spawn_error"], [kind |-> "wait_error"]}
    \cup [kind : {"exited"}, status : ExitStatuses,
          stdout : OutputLines, stderr : OutputLines]

\* the outcomes an attempt of the retry policy is run against
RetryProcOutcomes ==
    {p \in ProcOutcomes : p.kind = "exited" => p.stdout = <<>>}

\* Option<i32>::unwrap_or(-1)
unwrap_or(opt, default) == IF opt.some THEN opt.v ELSE default

\* the captured buffer: every line followed by a newline
RECURSIVE Buffer(_)
Buffer(lines) ==
    IF lines = <<>> THEN <<>>
    ELSE <<Head(lines), "\n">> \o Buffer(Tail(lines))

CommandResult(exit_code, stdout, stderr) ==
    [exit_code |-> exit_code, stdout |-> stdout, stderr |-> stderr]

Ok(result) == [tag |-> "Ok", result |-> result]
ErrIo(message) == [tag |-> "Io", message |-> message]
ErrNonZero(command, result) ==
    [tag |-> "NonZero", command |-> command, result |-> result]

IsErr(r) == r.tag \in {"Io", "NonZero"}

\* the conversion of a non-zero exit into a structured failure
NonZeroIgnored(fail_on_non_zero, result) == FALSE
FailsOnNonZero(fail_on_non_zero, result) ==
    fail_on_non_zero /\ result.exit_code /= 0

\* the error of a process that could not be run
ProcessIoError(command, stream_output, proc) ==
    IF stream_output /\ proc.kind = "wait_error"
    THEN ErrIo(<<"failed waiting command: ", command>>)
    ELSE ErrIo(<<"failed to execute command: ", command>>)

run_shell_internal(command, fail_on_non_zero, stream_output, proc) ==
    IF proc.kind /= "exited"
    THEN ProcessIoError(command, stream_output, proc)
    ELSE LET result == CommandResult(unwrap_or(proc.status.code, -1),
                                     Buffer(proc.stdout), Buffer(proc.stderr))
         IN IF FailsOnNonZero(fail_on_non_zero, result)
            THEN ErrNonZero(command, result)
            ELSE Ok(result)

run_shell(command, fail_on_non_zero, proc) ==
    run_shell_internal(command, fail_on_non_zero, FALSE, proc)

NoCall == [made |-> FALSE]

InitShell ==
    /\ sh_call = NoCall
    /\ sh_result = None

\* one call of run_shell_internal / run_shell
RunShellInternal(command, fail_on_non_zero, stream_output, proc) ==
    /\ sh_call' = [made |-> TRUE, command |-> command,
                   fail_on_non_zero |-> fail_on_non_zero,
                   stream_output |-> stream_output, proc |-> proc]
    /\ sh_result' = Some(IF stream_output
                         THEN run_shell_internal(command, fail_on_non_zero,
                                                 TRUE, proc)
                         ELSE run_shell(command, fail_on_non_zero, proc))

(***************************************************************************)
(* run_with_retry_streaming                                                *)
(***************************************************************************)
\* the number of attempts of a call
Attempts(retries) == Max(retries, 1) + 1

\* the flag every attempt runs with
RetryNoFail == FALSE
RetryFailOnNonZero == TRUE

\* last_err after a failed attempt
KeepFirstErr(prev, err) == IF prev.some THEN prev ELSE Some(err)
RecordErr(prev, err) == Some(err)

\* where the loop goes after an attempt returned r
AttemptPcIgnoreOk(r, n, total) ==
    IF n < total THEN "sleeping" ELSE "returned"
AttemptPcSleepLast(r, n, total) ==
    IF r.tag = "Ok" THEN "returned" ELSE "sleeping"
AttemptPc(r, n, total) ==
    IF r.tag = "Ok" THEN "returned"
    ELSE IF n < total THEN "sleeping"
    ELSE "returned"

\* the duration of one sleep, in seconds
SleepSeconds(retry_delay_seconds) == Max(retry_delay_seconds, 1)

\* the value returned once the loop is left without a success
Exhausted(err) ==
    IF err.some THEN err.v ELSE ErrIo(<<"unknown command failure">>)

InitRetry ==
    /\ rw_pc = "idle"
    /\ rw_command = ""
    /\ rw_retries = 0
    /\ rw_delay = 0
    /\ rw_stream = FALSE
    /\ attempts = 0
    /\ attempt = 0
    /\ last_err = None
    /\ rw_return = None
    /\ invocations = <<>>
    /\ sleeps = <<>>

\* the call: lines 249-250 and the entry of the loop
RetryCall(command, retries, retry_delay_seconds, stream_output) ==
    /\ rw_pc = "idle"
    /\ rw_command' = command
    /\ rw_retries' = retries
    /\ rw_delay' = retry_delay_seconds
    /\ rw_stream' = stream_output
    /\ attempts' = Attempts(retries)
    /\ attempt' = 1
    /\ last_err' = None
    /\ rw_return' = None
    /\ invocations' = <<>>
    /\ sleeps' = <<>>
    /\ rw_pc' = "loop"

\* one iteration of the loop up to its sleep or to the return
RetryAttempt(proc) ==
    /\ rw_pc = "loop"
    /\ LET r == run_shell_internal(rw_command, RetryFailOnNonZero,
                                   rw_stream, proc)
           pc == AttemptPc(r, attempt, attempts)
           err == IF r.tag = "Ok" THEN last_err ELSE RecordErr(last_err, r)
       IN /\ invocations' = Append(invocations, r)
          /\ last_err' = err
          /\ rw_pc' = pc
          /\ sleeps' = IF pc = "sleeping"
                       THEN Append(sleeps, SleepSeconds(rw_delay))
                       ELSE sleeps
          /\ rw_return' = IF pc = "returned"
                          THEN Some(IF r.tag = "Ok" THEN r ELSE Exhausted(err))
                          ELSE rw_return
    /\ UNCHANGED <<rw_command, rw_retries, rw_delay, rw_stream,
                   attempts, attempt>>

\* the sleep ends: the next iteration, or the end of the loop
RetryWake ==
    /\ rw_pc = "sleeping"
    /\ attempt' = attempt + 1
    /\ IF attempt + 1 <= attempts
       THEN /\ rw_pc' = "loop"
            /\ rw_return' = rw_return
       ELSE /\ rw_pc' = "returned"
            /\ rw_return' = Some(Exhausted(last_err))
    /\ UNCHANGED <<rw_command, rw_retries, rw_delay, rw_stream,
                   attempts, last_err, invocations, sleeps>>

(***************************************************************************)
(* run_workflow: the work list                                             *)
(***************************************************************************)
\* updated_at is a string, here a sequence of digits; a record parsed
\* without the field has the empty string
TimeStamps == {<<>>, <<0, 9>>, <<1, 0>>}

OpenPr(number, updated_at) == [number |-> number, updated_at |-> updated_at]

\* Ord for String: lexicographic, a proper prefix is less
RECURSIVE cmp(_, _)
cmp(a, b) ==
    IF a = <<>> /\ b = <<>> THEN "Equal"
    ELSE IF a = <<>> THEN "Less"
    ELSE IF b = <<>> THEN "Greater"
    ELSE IF Head(a) < Head(b) THEN "Less"
    ELSE IF Head(a) > Head(b) THEN "Greater"
    ELSE cmp(Tail(a), Tail(b))

\* the comparator of both sorts by update time
ByUpdatedAtAsc(a, b) == cmp(a.updated_at, b.updated_at)
ByUpdatedAtDesc(a, b) == cmp(b.updated_at, a.updated_at)

\* slice::sort_by with that comparator, a stable sort: x goes behind every
\* element that the comparator does not put after it
RECURSIVE InsertSorted(_, _)
InsertSorted(v, x) ==
    IF v = <<>> THEN <<x>>
    ELSE IF ByUpdatedAtDesc(v[Len(v)], x) = "Greater"
         THEN Append(InsertSorted(SubSeq(v, 1, Len(v) - 1), x), v[Len(v)])
         ELSE Append(v, x)

RECURSIVE sort_by(_)
sort_by(v) ==
    IF v = <<>> THEN <<>>
    ELSE InsertSorted(sort_by(SubSeq(v, 1, Len(v) - 1)), v[Len(v)])

\* Vec::truncate
truncate(v, len) == IF Len(v) > len THEN SubSeq(v, 1, len) ELSE v

\* Vec<u64> -> HashSet<u64>
RECURSIVE ToSet(_)
ToSet(v) == IF v = <<>> THEN {} ELSE {Head(v)} \cup ToSet(Tail(v))

\* the open PRs that are not processed yet, in the order listed
KeepAll(prs, processed) == prs
FilterNew(prs, processed) ==
    SelectSeq(prs, LAMBDA pr : pr.number \notin processed)

SelectNewPrs(prs, processed_numbers, max) ==
    LET processed == ToSet(processed_numbers)
        filtered == FilterNew(prs, processed)
        sorted == sort_by(filtered)
    IN IF Len(sorted) > max THEN truncate(sorted, max) ELSE sorted

\* the lists `gh pr list` can return: every open PR once
RECURSIVE PrLists(_)
PrLists(numbers) ==
    {<<>>} \cup
    UNION {{<<OpenPr(n, t)>> \o rest : t \in TimeStamps,
                                        rest \in PrLists(numbers \ {n})} :
           n \in numbers}

\* processed_pr_numbers as the engine state holds it: ascending, no number
\* twice
RECURSIVE Ascending(_)
Ascending(numbers) ==
    IF numbers = {} THEN <<>>
    ELSE LET least == CHOOSE n \in numbers : \A m \in numbers : n <= m
         IN <<least>> \o Ascending(numbers \ {least})

InitSelect ==
    /\ sel_pc = "idle"
    /\ open_prs = <<>>
    /\ processed_pr_numbers = <<>>
    /\ max_prs_per_run = 0
    /\ new_prs = <<>>

\* list_open_prs returned prs: the work list of the run
SelectWorkList(prs, processed_numbers, max) ==
    /\ sel_pc = "idle"
    /\ open_prs' = prs
    /\ processed_pr_numbers' = processed_numbers
    /\ max_prs_per_run' = max
    /\ new_prs' = SelectNewPrs(prs, processed_numbers, max)
    /\ sel_pc' = "selected"

(***************************************************************************)
(* The monthly completion counter                                          *)
(***************************************************************************)
\* Local::now() as a number of months; the run starts in November, so that
\* the year changes within the rollovers modelled
FirstMonth == 2026 * 12 + 10

\* Local::now().format("%Y-%m"): the year and the month of the year
current_month_key(now) == <<now \div 12, (now % 12) + 1>>

empty_for_current_month(now) ==
    [month_key |-> current_month_key(now), pr_numbers |-> {}]

RotateKeepsSet(c, now) ==
    [c EXCEPT !.month_key = current_month_key(now)]
rotate_if_needed(c, now) ==
    LET now_key == current_month_key(now)
    IN IF c.month_key /= now_key
       THEN [month_key |-> now_key, pr_numbers |-> {}]
       ELSE c

\* HashMap::get(..).cloned().unwrap_or_default()
GetOrDefault(map, key) == IF key \in DOMAIN map THEN map[key] ELSE <<>>

\* HashMap::insert
OnlyEntry(map, key, value) == [k \in {key} |-> value]
MapInsert(map, key, value) ==
    [k \in DOMAIN map \cup {key} |-> IF k = key THEN value ELSE map[k]]

initialize_monthly_fix_counter(by_month, now) ==
    LET month_key == current_month_key(now)
    IN [month_key |-> month_key,
        pr_numbers |-> ToSet(GetOrDefault(by_month, month_key))]

\* record_monthly_fixed_pr: the counter after the call, and what it returns
record_monthly_fixed_pr(c, now, pr_number) ==
    LET rotated == rotate_if_needed(c, now)
    IN [counter |-> [rotated EXCEPT !.pr_numbers = @ \cup {pr_number}],
        returns |-> pr_number \notin rotated.pr_numbers]

\* monthly_fixed_pr_count: the counter after the call, and what it returns
CountWithoutRotation(c, now) ==
    [counter |-> c, returns |-> Cardinality(c.pr_numbers)]
monthly_fixed_pr_count(c, now) ==
    LET rotated == rotate_if_needed(c, now)
    IN [counter |-> rotated, returns |-> Cardinality(rotated.pr_numbers)]

\* sync_monthly_fix_counter_into_state: the counter and the mapping after it
sync_monthly_fix_counter_into_state(c, now, by_month) ==
    LET rotated == rotate_if_needed(c, now)
        prs == Ascending(rotated.pr_numbers)
    IN [counter |-> rotated,
        by_month |-> MapInsert(by_month, rotated.month_key, prs)]

NoKeys == [k \in {} |-> <<>>]

InitCounter ==
    /\ clock = FirstMonth
    /\ counter = empty_for_current_month(FirstMonth)
    /\ monthly_fixed_pr_numbers_by_month = NoKeys
    /\ cnt_pc = "idle"
    /\ last_call = [op |-> "none"]
    /\ true_returns = [pair \in {} |-> 0]

\* the wall clock passes the end of a month
MonthRollover ==
    /\ clock < FirstMonth + MaxRollovers
    /\ clock' = clock + 1
    /\ UNCHANGED <<counter, monthly_fixed_pr_numbers_by_month, cnt_pc,
                   last_call, true_returns>>

\* run_workflow / run_single_pr_by_number load the engine state and set the
\* counter from it
InitializeCounter ==
    /\ cnt_pc = "idle"
    /\ counter' = initialize_monthly_fix_counter(
                      monthly_fixed_pr_numbers_by_month, clock)
    /\ last_call' = [op |-> "initialize"]
    /\ UNCHANGED <<clock, monthly_fixed_pr_numbers_by_month, cnt_pc,
                   true_returns>>

\* run_shell_internal prints the count
CountFixedPrs ==
    /\ LET call == monthly_fixed_pr_count(counter, clock)
       IN /\ counter' = call.counter
          /\ last_call' = [op |-> "count", returns |-> call.returns]
    /\ UNCHANGED <<clock, monthly_fixed_pr_numbers_by_month, cnt_pc,
                   true_returns>>

\* execute_pr records a PR that was reviewed, fixed and pushed; when the
\* call returns true the sync and the save of the engine state follow
RecordFixedPr(pr_number) ==
    /\ cnt_pc = "idle"
    /\ LET call == record_monthly_fixed_pr(counter, clock, pr_number)
           pair == <<call.counter.month_key, pr_number>>
           before == IF pair \in DOMAIN true_returns
                     THEN true_returns[pair] ELSE 0
       IN /\ counter' = call.counter
          /\ last_call' = [op |-> "record", pr_number |-> pr_number,
                           month_key |-> call.counter.month_key,
                           returns |-> call.returns]
          /\ true_returns' =
                 IF call.returns
                 THEN [q \in DOMAIN true_returns \cup {pair} |->
                          IF q = pair THEN (IF before = 0 THEN 1 ELSE 2)
                          ELSE true_returns[q]]
                 ELSE true_returns
          /\ cnt_pc' = IF call.returns THEN "recorded" ELSE "idle"
    /\ UNCHANGED <<clock, monthly_fixed_pr_numbers_by_month>>

\* sync_monthly_fix_counter_into_state and save_engine_state: in execute_pr
\* after a record that returned true, and at the end of a run
SyncCounterIntoState ==
    /\ LET call == sync_monthly_fix_counter_into_state(
                       counter, clock, monthly_fixed_pr_numbers_by_month)
       IN /\ counter' = call.counter
          /\ monthly_fixed_pr_numbers_by_month' = call.by_month
    /\ cnt_pc' = "idle"
    /\ last_call' = [op |-> "sync"]
    /\ UNCHANGED <<clock, true_returns>>

(***************************************************************************)
(* The bounded log of a run                                                *)
(***************************************************************************)
LogCap == 500

LogMessages == <<"Start run", "Checkout PR", "PR finished">>

\* format!("[{}] {}", now().to_rfc3339(), message)
LogLine(now, message) == <<"[", now, "] ", message>>

\* Vec::drain(0..n): the vector without its first n elements
DrainBack(v, n) == SubSeq(v, 1, Len(v) - n)
drain_front(v, n) == SubSeq(v, n + 1, Len(v))

append_log(lines, now, message) ==
    LET pushed == Append(lines, LogLine(now, message))
    IN IF Len(pushed) > LogCap
       THEN LET keep_from == Len(pushed) - LogCap
            IN drain_front(pushed, keep_from)
       ELSE pushed

\* the message of the k-th log_step of a run that logs every period-th
\* message of LogMessages in turn
ScriptMessage(period, k) == LogMessages[(k % period) + 1]

InitLog ==
    /\ log_lines = <<>>
    /\ appended = <<>>
    /\ utc_now = 0
    /\ log_script = 1

\* the run starts: RunSnapshot with an empty log
StartLog(period) ==
    /\ log_script' = period
    /\ log_lines' = <<>>
    /\ appended' = <<>>
    /\ utc_now' = utc_now + 1

\* one append_log call
AppendLog ==
    /\ Len(appended) < MaxAppends
    /\ LET message == ScriptMessage(log_script, Len(appended))
       IN /\ log_lines' = append_log(log_lines, utc_now, message)
          /\ appended' = Append(appended, LogLine(utc_now, message))
    /\ utc_now' = utc_now + 1
    /\ UNCHANGED log_script

(***************************************************************************)
(* run_workflow, execute_pr and run_single_pr_by_number                    *)
(*                                                                         *)
(* A run is modelled command by command: an action takes what one external *)
(* command (or group of commands without an effect on the run's state      *)
(* between them) returned, and goes on to the point where the next one is  *)
(* started, with every assignment and save on the way.  A write of a file  *)
(* may fail, and then leaves the file as it was.  The titles and URLs of   *)
(* PRs and the log of the snapshot (see above) are left out.               *)
(***************************************************************************)
\* the settings file
DefaultMaxPrsPerRun == 20
DefaultReviewTemplate == <<"codex", "review", "--base", "{{DEFAULT_BRANCH}}">>
DefaultFixTemplate == <<"codex", "exec", "{{PR_NUMBER}}", "{{REPORT_PATH}}">>

\* a review template of a user, with a prompt after --base
PromptReviewTemplate ==
    <<"codex", "review", "--base", "{{DEFAULT_BRANCH}}", "\"Check this PR\"">>

AppSettings(repo_path, repo_clone_url, max, auto_push) ==
    [repo_path |-> repo_path, repo_clone_url |-> repo_clone_url,
     default_branch |-> "main", max_prs_per_run |-> max,
     review_command_template |-> DefaultReviewTemplate,
     fix_command_template |-> DefaultFixTemplate,
     auto_push_enabled |-> auto_push]

\* templates of earlier versions
LegacyReviewTemplates ==
    {<<"codex", "review", "--pr", "{{PR_NUMBER}}">>,
     <<"codex", "review", "--repo", "{{REPO_PATH}}">>,
     <<"codex", "review", "--base", "{{DEFAULT_BRANCH}}", "{{PR_TITLE}}">>,
     <<"codex", "review", "--base", "{{DEFAULT_BRANCH}}",
       "\"Review this PR\"">>}
LegacyFixTemplates ==
    {<<"codex", "fix", "{{PR_NUMBER}}">>,
     <<" ", "codex", "fix", "{{PR_NUMBER}}">>}

\* settings files with templates of earlier versions
WithTemplates(review, fix) ==
    [AppSettings("/repo", "git@host:org/repo.git", 1, FALSE) EXCEPT
        !.review_command_template = review,
        !.fix_command_template = fix]
LegacySettingsFiles ==
    {WithTemplates(review, DefaultFixTemplate) :
         review \in LegacyReviewTemplates}
    \cup {WithTemplates(DefaultReviewTemplate, fix) :
              fix \in LegacyFixTemplates}
    \cup {WithTemplates(review, fix) :
              review \in LegacyReviewTemplates, fix \in LegacyFixTemplates}

SettingsFiles ==
    {AppSettings("", "", 2, TRUE),
     AppSettings("git@host:org/repo.git", "", 2, TRUE),
     AppSettings("/repo", "", 2, TRUE),
     AppSettings("/repo", "git@host:org/repo.git", 1, FALSE)}

\* a settings file with a review template of the user
PromptSettingsFile ==
    [AppSettings("/repo", "", 1, FALSE) EXCEPT
        !.review_command_template = PromptReviewTemplate]

\* the settings files run_workflow is started with
SettingsFileContents ==
    SettingsFiles \cup {PromptSettingsFile} \cup LegacySettingsFiles

\* what `gh pr list` returns in a run
WorkflowPrLists ==
    {<<>>, <<OpenPr(10, <<0, 9>>), OpenPr(11, <<1, 0>>)>>}

\* the processes a command of the workflow is run against: it exits 0, it
\* exits 1 with a line on stderr, and (codex review) it refuses --base
\* together with a prompt
ProcOk ==
    [kind |-> "exited", status |-> [code |-> Some(0)],
     stdout |-> <<>>, stderr |-> <<>>]
ProcFail ==
    [kind |-> "exited", status |-> [code |-> Some(1)],
     stdout |-> <<>>, stderr |-> <<"warn">>]
ProcConflict ==
    [kind |-> "exited", status |-> [code |-> Some(2)],
     stdout |-> <<>>,
     stderr |-> <<"error: '--base <BRANCH>' cannot be used with '[PROMPT]'">>]
WorkflowProcs == {ProcOk, ProcFail}

\* what run_with_retry / run_with_retry_streaming returns: what its last
\* attempt returned, proc being the process of that attempt
run_with_retry(command, proc) ==
    run_shell_internal(command, RetryFailOnNonZero, FALSE, proc)

\* str::trim on a captured buffer: without the newline at its end
Trim(buffer) ==
    IF buffer /= <<>> /\ buffer[Len(buffer)] = "\n"
    THEN SubSeq(buffer, 1, Len(buffer) - 1)
    ELSE buffer

\* render_exec_error; a message is the sequence of its pieces
render_exec_error(err) ==
    IF err.tag = "Io" THEN <<err.message[1]>> \o err.message[2]
    ELSE LET stderr == Trim(err.result.stderr)
             head == err.command \o <<" failed with exit ",
                                      ToString(err.result.exit_code)>>
         IN IF stderr = <<>> THEN head ELSE head \o <<": ">> \o stderr

\* anyhow::Result
AOk(v) == [tag |-> "Ok", v |-> v]
AErr(message) == [tag |-> "Err", message |-> message]

\* validate_required_commands, missing being the tools not installed
validate_required_commands(missing) ==
    IF "git" \in missing THEN AErr(<<"git CLI not found">>)
    ELSE IF "gh" \in missing THEN AErr(<<"gh CLI not found">>)
    ELSE IF "codex" \in missing THEN AErr(<<"codex CLI not found">>)
    ELSE AOk(TRUE)

MissingTools == {{}, {"codex"}}

\* the directory at repo_path and what git does there
RepoDirs ==
    {[dir |-> "populated", work_tree |-> TRUE, clone |-> ProcOk],
     [dir |-> "populated", work_tree |-> FALSE, clone |-> ProcOk],
     [dir |-> "missing", work_tree |-> TRUE, clone |-> ProcOk],
     [dir |-> "empty", work_tree |-> TRUE, clone |-> ProcFail]}

IsRemoteUrl(path) == path = "git@host:org/repo.git"

ensure_repo_ready(s, fs) ==
    IF s.repo_path = "" THEN AErr(<<"settings.repo_path is empty">>)
    ELSE IF IsRemoteUrl(s.repo_path)
    THEN AErr(<<"settings.repo_path must be a local directory path, not a remote URL; put remote URL in settings.repo_clone_url">>)
    ELSE LET is_directory_empty == fs.dir \in {"missing", "empty"}
             cloned == run_with_retry(<<"git", "clone">>, fs.clone)
         IN IF is_directory_empty /\ s.repo_clone_url = ""
            THEN AErr(<<"repo_path is empty and settings.repo_clone_url is empty, cannot auto clone">>)
            ELSE IF is_directory_empty /\ IsErr(cloned)
            THEN AErr(render_exec_error(cloned))
            ELSE IF ~fs.work_tree
            THEN AErr(<<"repo_path is not a git repository">>)
            ELSE AOk(TRUE)

\* a sequence of words holds the words of piece next to each other
Contains(text, piece) ==
    \E i \in 0..(Len(text) - Len(piece)) :
        \A j \in 1..Len(piece) : text[i + j] = piece[j]

\* str::trim_start and str::starts_with, a piece of white space being the
\* word " "
RECURSIVE trim_start(_)
trim_start(text) ==
    IF text /= <<>> /\ text[1] = " " THEN trim_start(Tail(text)) ELSE text

starts_with(text, piece) ==
    /\ Len(text) >= Len(piece)
    /\ SubSeq(text, 1, Len(piece)) = piece

\* the tests of a template that is no longer supported
UsesReviewPr(template) == Contains(template, <<"codex", "review", "--pr">>)
UsesCodexFix(template) == starts_with(trim_start(template), <<"codex", "fix">>)

validate_command_templates(s) ==
    IF UsesReviewPr(s.review_command_template)
    THEN AErr(<<"review_command_template contains unsupported flags (--pr)">>)
    ELSE IF UsesCodexFix(s.fix_command_template)
    THEN AErr(<<"fix_command_template uses unsupported codex fix">>)
    ELSE AOk(TRUE)

\* the placeholders of a PR, and the prompts that begin with "Review
PrPlaceholders ==
    {"{{PR_NUMBER}}", "{{PR_TITLE}}", "{{PR_URL}}", "{{PR_BRANCH}}"}
ReviewPrompts == {"\"Review this PR\""}

\* load_settings replaces the review template
MigratesReview(template) ==
    \/ Contains(template, <<"codex", "review", "--pr">>)
    \/ Contains(template, <<"--repo", "{{REPO_PATH}}">>)
    \/ /\ Contains(template, <<"codex", "review", "--base">>)
       /\ \E i \in 1..Len(template) :
              template[i] \in PrPlaceholders \cup ReviewPrompts

\* load_settings replaces the fix template
MigratesFix(template) ==
    starts_with(trim_start(template), <<"codex", "fix">>)

\* AppSettings::default()
DefaultSettings == AppSettings("", "", DefaultMaxPrsPerRun, TRUE)

\* the settings file read as it is
Unmigrated(file, saved) ==
    IF ~file.some
    THEN IF saved THEN AOk(DefaultSettings)
         ELSE AErr(<<"failed to write file: ", "settings">>)
    ELSE AOk(file.v)

\* load_settings: the settings of the file, saved being whether the write
\* of the file succeeds where load_settings writes it
load_settings(file, saved) ==
    IF ~file.some
    THEN IF saved THEN AOk(DefaultSettings)
         ELSE AErr(<<"failed to write file: ", "settings">>)
    ELSE LET review ==
                 IF MigratesReview(file.v.review_command_template)
                 THEN DefaultReviewTemplate
                 ELSE file.v.review_command_template
             fix ==
                 IF MigratesFix(file.v.fix_command_template)
                 THEN DefaultFixTemplate
                 ELSE file.v.fix_command_template
             loaded == [file.v EXCEPT !.review_command_template = review,
                                      !.fix_command_template = fix]
         IN IF loaded /= file.v /\ ~saved
            THEN AErr(<<"failed to write file: ", "settings">>)
            ELSE AOk(loaded)

\* sync_repository: rollback_uncommitted_changes, then git fetch, git
\* checkout and git pull, each one after the one before returned Ok
PullFirst == <<"pull", "rollback", "fetch", "checkout">>
SyncOrder == <<"rollback", "fetch", "checkout", "pull">>

SyncCommand(step) ==
    CASE step = "rollback" -> <<"git", "status", "--porcelain">>
      [] step = "fetch" -> <<"git", "fetch", "--all", "--prune">>
      [] step = "checkout" -> <<"git", "checkout", "'", "main", "'">>
      [] step = "pull" -> <<"git", "pull", "--ff-only", "origin",
                            "'", "main", "'">>

\* a step of a run and whether it succeeded
Step(name, ok) == [step |-> name, ok |-> ok]
Passed(names) == [i \in 1..Len(names) |-> Step(names[i], TRUE)]

\* the steps sync_repository takes when the command of step is the first
\* to fail (ok false), or when none fails (step the last one, ok true)
SyncTrail(step, ok) ==
    LET at == CHOOSE i \in 1..Len(SyncOrder) : SyncOrder[i] = step
    IN Passed(SubSeq(SyncOrder, 1, at - 1)) \o <<Step(step, ok)>>

\* sync_repository, proc being the process of the command of step, the
\* commands before it having exited 0
sync_repository(step, proc) ==
    LET r == IF step = "rollback"
             THEN run_shell(SyncCommand(step), TRUE, proc)
             ELSE run_with_retry(SyncCommand(step), proc)
    IN IF IsErr(r) THEN AErr(render_exec_error(r)) ELSE AOk(TRUE)

\* list_open_prs
list_open_prs(proc, prs) ==
    LET r == run_with_retry(<<"gh", "pr", "list">>, proc)
    IN IF IsErr(r) THEN AErr(render_exec_error(r)) ELSE AOk(prs)

\* EngineState
EngineState(processed, last_run, by_month) ==
    [processed_pr_numbers |-> processed, last_run_at |-> last_run,
     monthly_fixed_pr_numbers_by_month |-> by_month]

\* RunSnapshot { .. }, as both runs build it
NewSnapshot(now, stage, total) ==
    [started_at |-> Some(now), finished_at |-> None, status |-> "Running",
     stage |-> stage, total_prs |-> total, current_index |-> 0,
     current_pr_number |-> None, error_message |-> None, report |-> <<>>]

DefaultSnapshot ==
    [started_at |-> None, finished_at |-> None, status |-> "Idle",
     stage |-> "Idle", total_prs |-> 0, current_index |-> 0,
     current_pr_number |-> None, error_message |-> None, report |-> <<>>]

PrExecutionResult(number, review_exit_code, fix_exit_code, pushed, error) ==
    [number |-> number, review_exit_code |-> review_exit_code,
     fix_exit_code |-> fix_exit_code, pushed |-> pushed,
     error_message |-> error]


\* the locals of a run and of its execute_pr: which entry point runs, the
\* work list, the ordinal of the PR in hand, failures, processed_set, the
\* pr_number run_single_pr_by_number was called with (0 in run_workflow),
\* review_cmd, the exit codes of review_result and fix_result, pushed, and
\* what execute_pr returned
NoRun ==
    [mode |-> "none", new_prs |-> <<>>, ordinal |-> 0, failures |-> 0,
     processed_set |-> {}, review_cmd |-> <<>>, review_exit_code |-> 0,
     fix_exit_code |-> 0, pushed |-> FALSE, pr_result |-> None,
     pr_number |-> 0, open |-> {}]

\* what is remembered of the runs.  Of the run in hand: the PRs execute_pr
\* was entered for, in that order; those it returned Ok for; those git push
\* succeeded for; those whose tree had changes when git status ran; those
\* record_monthly_fixed_pr was called for; the step before the PRs that
\* failed; the exit code of the last checkout of the default branch; what
\* the run returned.  Of the runs before:
\* the PRs execute_pr returned Ok for in a run_workflow that crashed, and
\* the number of runs started.  Of the start of the run in hand: the
\* engine state file as it was, the PRs for which execute_pr returned Err
\* in the run before when that was a run_workflow (up to the first
\* execute_pr), and the steps
\* run_workflow has taken, in the order it took them, each with whether it
\* succeeded.  Of the execute_pr in hand: its calls of the review
\* command, of write_report and of the fix command, in order.
NoHistory ==
    [executed |-> <<>>, completed |-> {}, pushed |-> {}, dirty |-> {},
     recorded |-> {}, failed_step |-> "none", checkout_exit |-> None,
     returned |-> "none", interrupted |-> {}, runs |-> 0,
     before |-> EngineState(<<>>, None, NoKeys),
     trail |-> <<>>, calls |-> <<>>, migrated |-> FALSE,
     failed_before |-> {}]

StartedHistory ==
    [NoHistory EXCEPT !.interrupted = hist.interrupted,
                      !.runs = hist.runs + 1,
                      !.before = state_file,
                      !.failed_before =
                          IF run.mode = "workflow"
                          THEN ToSet(hist.executed) \ hist.completed
                          ELSE {}]

\* save_snapshot / save_engine_state: the file after the call
NotSaved(file, value, written) == file
save_json(file, value, written) == IF written THEN value ELSE file

InitWorkflow ==
    /\ wf_pc = "idle"
    /\ settings = AppSettings("", "", 2, TRUE)
    /\ state = EngineState(<<>>, None, NoKeys)
    /\ state_file = EngineState(<<>>, None, NoKeys)
    /\ snapshot = DefaultSnapshot
    /\ snapshot_file = DefaultSnapshot
    /\ run = NoRun
    /\ hist = NoHistory

\* the run returns: Ok(snapshot), or the error of a write that failed
ReturnAfter(taken, snap, file, result) ==
    /\ snapshot' = snap
    /\ snapshot_file' = file
    /\ wf_pc' = "idle"
    /\ hist' = [hist EXCEPT !.returned = result, !.trail = @ \o taken,
                            !.failed_before = {}]

Return(snap, file, result) == ReturnAfter(<<>>, snap, file, result)

\* run_workflow, the branch of a step before the PRs that failed
KeptRunning(snap, err) ==
    [snap EXCEPT !.error_message = Some(err), !.finished_at = Some(utc_now)]
FailedSnapshot(snap, err) ==
    [snap EXCEPT !.status = "Failed", !.stage = "Failed",
                 !.error_message = Some(err),
                 !.finished_at = Some(utc_now)]

\* that branch, saving the engine state with the time of the run as well
FailRunStamped(taken, step, err, written) ==
    LET failed == FailedSnapshot(snapshot, err)
    IN /\ snapshot' = failed
       /\ snapshot_file' = save_json(snapshot_file, failed, written)
       /\ state_file' = [state_file EXCEPT !.last_run_at = Some(utc_now)]
       /\ wf_pc' = "idle"
       /\ hist' = [hist EXCEPT !.failed_step = step,
                               !.trail = @ \o taken,
                               !.failed_before = {},
                               !.returned = IF written THEN "Ok" ELSE "Err"]

\* that branch of the step named, with its save_snapshot, the only file it
\* writes
FailRunAt(taken, step, err, written) ==
    LET failed == FailedSnapshot(snapshot, err)
    IN /\ snapshot' = failed
       /\ snapshot_file' = save_json(snapshot_file, failed, written)
       /\ state_file' = state_file
       /\ wf_pc' = "idle"
       /\ hist' = [hist EXCEPT !.failed_step = step,
                               !.trail = @ \o taken,
                               !.failed_before = {},
                               !.returned = IF written THEN "Ok" ELSE "Err"]

FailRun(step, err, written) ==
    FailRunAt(<<Step(step, FALSE)>>, step, err, written)

\* the calls of load_settings of a run: a settings file, or none, and
\* whether the write of the file succeeds; of the calls that load the same
\* settings with the same writes, one
SettingsLoads ==
    LET calls == [file : {None} \cup {Some(s) : s \in SettingsFileContents},
                  saved : BOOLEAN]
        Loaded(call) ==
            <<load_settings(call.file, call.saved),
              load_settings(call.file, FALSE).tag = "Err">>
    IN {CHOOSE call \in calls : Loaded(call) = loaded :
            loaded \in {Loaded(call) : call \in calls}}

\* run_workflow is called: from load_settings to the start of
\* validate_required_commands
StartRun(file, saved, written) ==
    /\ wf_pc = "idle"
    /\ hist.runs < MaxRuns
    /\ run' = [NoRun EXCEPT !.mode = "workflow"]
    /\ LET loaded == load_settings(file, saved)
           started == NewSnapshot(utc_now, "SyncingRepo", 0)
           history == [StartedHistory EXCEPT
                          !.migrated = file.some /\ loaded.tag = "Ok"
                                                 /\ loaded.v /= file.v]
       IN IF loaded.tag = "Err"
          THEN /\ written    \* no snapshot is built on this path
               /\ wf_pc' = "idle"
               /\ hist' = [history EXCEPT !.returned = "Err"]
               /\ snapshot' = DefaultSnapshot
               /\ UNCHANGED <<settings, state, counter, snapshot_file>>
          ELSE /\ settings' = loaded.v
               /\ state' = state_file
               /\ counter' = initialize_monthly_fix_counter(
                                 state_file.monthly_fixed_pr_numbers_by_month,
                                 clock)
               /\ snapshot' = started
               /\ snapshot_file' = save_json(snapshot_file, started, written)
               /\ IF written
                  THEN /\ wf_pc' = "validate_tools"
                       /\ hist' = history
                  ELSE /\ wf_pc' = "idle"
                       /\ hist' = [history EXCEPT !.returned = "Err"]
    /\ UNCHANGED state_file

\* validate_required_commands returns
ValidateTools(missing, written) ==
    /\ wf_pc = "validate_tools"
    /\ LET checked == validate_required_commands(missing)
       IN IF checked.tag = "Err"
          THEN FailRun("tools", checked.message, written)
          ELSE /\ written    \* nothing is written on this path
               /\ wf_pc' = "prepare_repo"
               /\ hist' = [hist EXCEPT !.trail = @ \o Passed(<<"tools">>)]
               /\ UNCHANGED <<snapshot, snapshot_file, state_file>>
    /\ UNCHANGED <<settings, state, run, counter>>

\* ensure_repo_ready returns, and validate_command_templates after it
PrepareRepo(fs, written) ==
    /\ wf_pc = "prepare_repo"
    /\ LET ready == ensure_repo_ready(settings, fs)
           valid == validate_command_templates(settings)
       IN IF ready.tag = "Err"
          THEN FailRun("repo", ready.message, written)
          ELSE IF valid.tag = "Err"
          THEN FailRunAt(<<Step("repo", TRUE), Step("templates", FALSE)>>,
                         "templates", valid.message, written)
          ELSE /\ written    \* nothing is written on this path
               /\ wf_pc' = "sync_repo"
               /\ hist' = [hist EXCEPT
                              !.trail = @ \o Passed(<<"repo", "templates">>)]
               /\ UNCHANGED <<snapshot, snapshot_file, state_file>>
    /\ UNCHANGED <<settings, state, run, counter>>

\* sync_repository returns
SyncRepo(step, proc, written) ==
    /\ wf_pc = "sync_repo"
    /\ LET synced == sync_repository(step, proc)
           loading == [snapshot EXCEPT !.stage = "LoadingPrs"]
       IN IF synced.tag = "Err"
          THEN FailRunAt(SyncTrail(step, FALSE), "sync", synced.message,
                         written)
          ELSE /\ step = SyncOrder[Len(SyncOrder)]
               /\ snapshot' = loading
               /\ snapshot_file' = save_json(snapshot_file, loading, written)
               /\ wf_pc' = IF written THEN "list_prs" ELSE "idle"
               /\ hist' = [hist EXCEPT
                              !.trail = @ \o SyncTrail(step, TRUE),
                              !.returned = IF written THEN @ ELSE "Err"]
               /\ UNCHANGED state_file
    /\ UNCHANGED <<settings, state, run, counter>>

\* processed_set as a run starts with it: the numbers of the engine state
CollectNothing(st) == {}
CollectProcessed(st) == ToSet(st.processed_pr_numbers)

\* HashSet<u64> -> Vec<u64>, then sort_unstable
SortedNumbers(set) == Ascending(set)

\* the engine state at the end of a run: processed_set, last_run_at and the
\* counter go into it
FinishedState(st, processed_numbers, c) ==
    LET synced == sync_monthly_fix_counter_into_state(
                      c, clock, st.monthly_fixed_pr_numbers_by_month)
    IN [counter |-> synced.counter,
        state |-> EngineState(processed_numbers, Some(utc_now),
                              synced.by_month)]

\* run_workflow, the branch of an empty new_prs: the snapshot it returns
StillListing(snap) == [snap EXCEPT !.finished_at = Some(utc_now)]
NoNewPrsSnapshot(snap) ==
    [snap EXCEPT !.status = "Succeeded", !.stage = "Completed",
                 !.finished_at = Some(utc_now)]

\* list_open_prs returns: the selection of the work list, and the end of
\* the run when the list is empty.  failing is the write that fails: none
\* (0), the snapshot with total_prs (1), the engine state (2), the last
\* snapshot (3)
ListPrs(proc, prs, failing) ==
    /\ wf_pc = "list_prs"
    /\ LET listed == list_open_prs(proc, prs)
           selected == SelectNewPrs(listed.v, state.processed_pr_numbers,
                                   settings.max_prs_per_run)
           total_prs == Len(selected)
           found == [snapshot EXCEPT !.total_prs = total_prs]
           done == NoNewPrsSnapshot(found)
           finished == FinishedState(state, state.processed_pr_numbers,
                                     counter)
       IN IF listed.tag = "Err"
          THEN /\ failing \in {0, 1}
               /\ FailRun("list", listed.message, failing = 0)
               /\ UNCHANGED <<state, run, counter>>
          ELSE IF failing = 1
          THEN /\ ReturnAfter(Passed(<<"list", "select">>), found,
                              save_json(snapshot_file, found, FALSE), "Err")
               /\ UNCHANGED <<state, state_file, run, counter>>
          ELSE IF selected /= <<>>
          THEN /\ failing = 0
               /\ snapshot' = found
               /\ snapshot_file' = save_json(snapshot_file, found, TRUE)
               /\ run' = [run EXCEPT
                             !.open = {listed.v[i].number :
                                          i \in 1..Len(listed.v)},
                             !.new_prs = selected,
                             !.processed_set = CollectProcessed(state),
                             !.failures = 0,
                             !.ordinal = 1]
               /\ wf_pc' = "execute_pr"
               /\ hist' = [hist EXCEPT
                              !.trail = @ \o Passed(<<"list", "select">>)]
               /\ UNCHANGED <<state, state_file, counter>>
          ELSE /\ state' = finished.state
               /\ counter' = finished.counter
               /\ state_file' = save_json(state_file, finished.state,
                                          failing /= 2)
               /\ run' = [run EXCEPT
                             !.open = {listed.v[i].number :
                                          i \in 1..Len(listed.v)}]
               /\ LET saved == save_json(snapshot_file, found, TRUE)
                      taken == Passed(<<"list", "select", "merge">>)
                                   \o <<Step("persist", failing = 0)>>
                  IN IF failing = 2 THEN ReturnAfter(taken, done, saved, "Err")
                     ELSE ReturnAfter(taken, done,
                                      save_json(saved, done, failing /= 3),
                                      IF failing = 3 THEN "Err" ELSE "Ok")
    /\ UNCHANGED settings

(***************************************************************************)
(* execute_pr                                                              *)
(***************************************************************************)
\* sh_quote, of a value without a quote in it
sh_quote(input) == <<"'", input, "'">>

\* str::replace on a sequence of words
RECURSIVE Replace(_, _, _)
Replace(text, from, to) ==
    IF text = <<>> THEN <<>>
    ELSE (IF Head(text) = from THEN to ELSE <<Head(text)>>)
         \o Replace(Tail(text), from, to)

\* expand_template, for the placeholders of the templates modelled
expand_template(template, pr, s) ==
    Replace(Replace(template, "{{PR_NUMBER}}", <<ToString(pr.number)>>),
            "{{DEFAULT_BRANCH}}", sh_quote(s.default_branch))

\* every review command that exited non-zero taken for the conflict
AnyNonZeroExit(err) == err.tag = "NonZero"

is_codex_review_prompt_conflict(err) ==
    /\ err.tag = "NonZero"
    /\ Contains(err.command, <<"codex", "review">>)
    /\ Contains(err.command, <<"--base">>)
    /\ \E i \in 1..Len(err.result.stderr) :
           err.result.stderr[i] =
               "error: '--base <BRANCH>' cannot be used with '[PROMPT]'"

\* the error of a write that failed
WriteError(file) == <<"failed to write file: ", file>>

\* commit_and_push_if_needed: porcelain is what git status printed, commit
\* the process of the first of git status, git add, git commit and the
\* clean-up of the commit message to fail (of the last of them, if none
\* does), push the process that decides git push
commit_and_push_if_needed(porcelain, commit, push) ==
    LET committed == run_shell(<<"git", "commit">>, TRUE, commit)
        pushed == run_with_retry(<<"git", "push">>, push)
    IN IF IsErr(committed) THEN committed
       ELSE IF Trim(porcelain) = <<>> THEN Ok(FALSE)
       ELSE IF IsErr(pushed) THEN pushed
       ELSE Ok(TRUE)

\* the condition under which execute_pr counts the PR for the month
CountsAlways(review_exit_code, fix_exit_code, pushed) == TRUE
CountsAsFixed(review_exit_code, fix_exit_code, pushed) ==
    review_exit_code = 0 /\ fix_exit_code = 0 /\ pushed

\* slice::sort_by_key(|item| item.number), a stable sort
RECURSIVE InsertByNumber(_, _)
InsertByNumber(v, x) ==
    IF v = <<>> THEN <<x>>
    ELSE IF v[Len(v)].number > x.number
         THEN Append(InsertByNumber(SubSeq(v, 1, Len(v) - 1), x), v[Len(v)])
         ELSE Append(v, x)

RECURSIVE SortedByNumber(_)
SortedByNumber(v) ==
    IF v = <<>> THEN <<>>
    ELSE InsertByNumber(SortedByNumber(SubSeq(v, 1, Len(v) - 1)), v[Len(v)])

AsPushed(v) == v
sort_by_key(v) == SortedByNumber(v)

\* the PR in hand
CurrentPr == run.new_prs[run.ordinal]

\* execute_pr returns Err(err)
PrFails(snap, err) ==
    /\ snapshot' = snap
    /\ run' = [run EXCEPT !.pr_result = Some(AErr(err))]
    /\ wf_pc' = "pr_done"

\* execute_pr is entered: up to the start of checkout_pr
ExecutePr(written) ==
    /\ wf_pc = "execute_pr"
    /\ LET pr == CurrentPr
           entered ==
               [snapshot EXCEPT !.current_index = run.ordinal,
                                !.current_pr_number = Some(pr.number),
                                !.stage = "ReviewingPr"]
       IN /\ hist' = [hist EXCEPT !.executed = Append(@, pr.number),
                               !.calls = <<>>,
                               !.failed_before = {}]
          /\ snapshot_file' = save_json(snapshot_file, entered, written)
          /\ IF written
             THEN /\ snapshot' = entered
                  /\ run' = [run EXCEPT !.pr_result = None]
                  /\ wf_pc' = "checkout"
             ELSE PrFails(entered, WriteError("snapshot"))
    /\ UNCHANGED <<settings, state, state_file, counter>>

\* checkout_pr returns
CheckoutPr(proc) ==
    /\ wf_pc = "checkout"
    /\ LET pr == CurrentPr
           r == run_with_retry(<<"gh", "pr", "checkout",
                                 ToString(pr.number)>>, proc)
       IN IF IsErr(r)
          THEN PrFails(snapshot, render_exec_error(r))
          ELSE /\ UNCHANGED snapshot
               /\ run' = [run EXCEPT !.review_cmd =
                             expand_template(
                                 settings.review_command_template, pr,
                                 settings)]
               /\ wf_pc' = "review"
    /\ UNCHANGED <<settings, state, state_file, snapshot_file, counter, hist>>

\* the review stage entered again
ReviewingAgain(snap) == [snap EXCEPT !.stage = "ReviewingPr"]

\* the stage of the fix command
Fixing(snap) == [snap EXCEPT !.stage = "FixingPr"]

\* the review has a result: write_report, then the stage of the fix.
\* failing is the write that fails: none (0), the report (1), the snapshot
\* (2)
Reviewed(review_result, failing) ==
    LET pr == CurrentPr
        fixing == Fixing(snapshot)
    IN IF failing = 1
       THEN /\ PrFails(snapshot, WriteError("report"))
            /\ UNCHANGED snapshot_file
       ELSE IF failing = 2
       THEN /\ PrFails(fixing, WriteError("snapshot"))
            /\ snapshot_file' = save_json(snapshot_file, fixing, FALSE)
       ELSE /\ snapshot' = fixing
            /\ snapshot_file' = save_json(snapshot_file, fixing, TRUE)
            /\ run' = [run EXCEPT
                          !.review_exit_code = review_result.exit_code]
            /\ wf_pc' = "fix"

\* a call made by execute_pr: of the review command or the fix command
\* with the process it ran against, or of write_report with the review
\* command and the process whose result it writes
Call(op, command, proc, ok) ==
    [op |-> op, command |-> command, proc |-> proc, ok |-> ok]

\* the calls of one review: the command, then write_report once it
\* succeeded
ReviewCalls(proc, failing) ==
    LET r == run_with_retry(run.review_cmd, proc)
    IN <<Call("review", run.review_cmd, proc, ~IsErr(r))>>
       \o IF IsErr(r) THEN <<>>
          ELSE <<Call("write_report", run.review_cmd, proc, failing /= 1)>>

\* the review command returns
ReviewPr(proc, failing) ==
    /\ wf_pc = "review"
    /\ hist' = [hist EXCEPT !.calls = @ \o ReviewCalls(proc, failing)]
    /\ LET r == run_with_retry(run.review_cmd, proc)
       IN IF ~IsErr(r) THEN Reviewed(r.result, failing)
          ELSE /\ failing = 0
               /\ UNCHANGED snapshot_file
               /\ IF is_codex_review_prompt_conflict(r)
                  THEN /\ UNCHANGED snapshot
                       /\ run' = [run EXCEPT !.review_cmd =
                                     <<"codex", "review", "--base">>
                                     \o sh_quote(settings.default_branch)]
                       /\ wf_pc' = "review_fallback"
                  ELSE PrFails(snapshot, render_exec_error(r))
    /\ UNCHANGED <<settings, state, state_file, counter>>

\* the review command of the fallback returns
ReviewFallback(proc, failing) ==
    /\ wf_pc = "review_fallback"
    /\ hist' = [hist EXCEPT !.calls = @ \o ReviewCalls(proc, failing)]
    /\ LET r == run_with_retry(run.review_cmd, proc)
       IN IF ~IsErr(r) THEN Reviewed(r.result, failing)
          ELSE /\ failing = 0
               /\ UNCHANGED snapshot_file
               /\ PrFails(snapshot, render_exec_error(r))
    /\ UNCHANGED <<settings, state, state_file, counter>>

\* execute_pr from the monthly counter to its Ok(..), pushed being known;
\* h is what is remembered so far
Counted(h, fix_exit_code, pushed, written) ==
    LET pr == CurrentPr
        rec == record_monthly_fixed_pr(counter, clock, pr.number)
        synced == sync_monthly_fix_counter_into_state(
                      rec.counter, clock,
                      state.monthly_fixed_pr_numbers_by_month)
        result == PrExecutionResult(pr.number, run.review_exit_code,
                                    fix_exit_code, pushed, None)
        ok == [run EXCEPT !.fix_exit_code = fix_exit_code,
                          !.pushed = pushed,
                          !.pr_result = Some(AOk(result))]
        pushes == IF pushed THEN h.pushed \cup {pr.number}
                  ELSE h.pushed
    IN IF ~CountsAsFixed(run.review_exit_code, fix_exit_code, pushed)
       THEN /\ written    \* nothing is written on this path
            /\ run' = ok
            /\ wf_pc' = "pr_done"
            /\ hist' = [h EXCEPT !.pushed = pushes,
                                    !.completed = @ \cup {pr.number}]
            /\ UNCHANGED <<snapshot, state, state_file, counter>>
       ELSE IF ~rec.returns
       THEN /\ written    \* nothing is written on this path
            /\ run' = ok
            /\ wf_pc' = "pr_done"
            /\ counter' = rec.counter
            /\ hist' = [h EXCEPT !.pushed = pushes,
                                    !.recorded = @ \cup {pr.number},
                                    !.completed = @ \cup {pr.number}]
            /\ UNCHANGED <<snapshot, state, state_file>>
       ELSE /\ UNCHANGED snapshot
            /\ counter' = synced.counter
            /\ state' = [state EXCEPT
                            !.monthly_fixed_pr_numbers_by_month =
                                synced.by_month]
            /\ state_file' = save_json(state_file, state', written)
            /\ wf_pc' = "pr_done"
            /\ IF written
               THEN /\ run' = ok
                    /\ hist' = [h EXCEPT
                                   !.pushed = pushes,
                                   !.recorded = @ \cup {pr.number},
                                   !.completed = @ \cup {pr.number}]
               ELSE /\ run' = [run EXCEPT
                                  !.fix_exit_code = fix_exit_code,
                                  !.pushed = pushed,
                                  !.pr_result =
                                      Some(AErr(WriteError("state")))]
                    /\ hist' = [h EXCEPT
                                   !.pushed = pushes,
                                   !.recorded = @ \cup {pr.number}]

\* the fix command returns
FixPr(proc, written) ==
    /\ wf_pc = "fix"
    /\ LET pr == CurrentPr
           fix_cmd == expand_template(settings.fix_command_template, pr,
                                      settings)
           r == run_with_retry(fix_cmd, proc)
           pushing == [snapshot EXCEPT !.stage = "PushingChanges"]
           called ==
               [hist EXCEPT
                   !.calls = Append(@, Call("fix", fix_cmd, proc,
                                            ~IsErr(r)))]
       IN IF IsErr(r)
          THEN /\ written    \* nothing is written on this path
               /\ PrFails(snapshot, render_exec_error(r))
               /\ hist' = called
               /\ UNCHANGED <<snapshot_file, state, state_file, counter>>
          ELSE IF ~settings.auto_push_enabled
          THEN /\ Counted(called, r.result.exit_code, FALSE, written)
               /\ UNCHANGED snapshot_file
          ELSE /\ snapshot_file' = save_json(snapshot_file, pushing, written)
               /\ IF written
                  THEN /\ snapshot' = pushing
                       /\ run' = [run EXCEPT
                                     !.fix_exit_code = r.result.exit_code]
                       /\ wf_pc' = "push"
                  ELSE PrFails(pushing, WriteError("snapshot"))
               /\ hist' = called
               /\ UNCHANGED <<state, state_file, counter>>
    /\ UNCHANGED settings

\* what git status --porcelain prints
Porcelains == {<<>>, <<" M src/lib.rs", "\n">>}

\* commit_and_push_if_needed returns
PushPr(porcelain, commit, push, written) ==
    /\ wf_pc = "push"
    /\ LET r == commit_and_push_if_needed(porcelain, commit, push)
           seen == IF Trim(porcelain) = <<>> THEN hist
                   ELSE [hist EXCEPT !.dirty = @ \cup {CurrentPr.number}]
       IN IF IsErr(r)
          THEN /\ written    \* nothing is written on this path
               /\ PrFails(snapshot, render_exec_error(r))
               /\ hist' = seen
               /\ UNCHANGED <<state, state_file, counter>>
          ELSE Counted(seen, run.fix_exit_code, r.result, written)
    /\ UNCHANGED <<settings, snapshot_file>>

\* the result of a PR whose execute_pr returned Err
ZeroExitCodes(number, err) ==
    PrExecutionResult(number, 0, 0, FALSE, Some(err))
FailedResult(number, err) ==
    PrExecutionResult(number, -1, -1, FALSE, Some(err))

\* the for loop over new_prs has a next PR after the one of this ordinal,
\* whatever execute_pr returned for it
StopsAtFailure(pr_result, ordinal, total) ==
    pr_result.tag = "Ok" /\ ordinal < total
HasNext(pr_result, ordinal, total) == ordinal < total

\* processed_set after execute_pr returned for the PR, in the match arms of
\* the loop: the PR goes into it when execute_pr returned Ok
ProcessedAlways(processed_set, pr_result, number) ==
    processed_set \cup {number}
Processed(processed_set, pr_result, number) ==
    IF pr_result.tag = "Ok" THEN processed_set \cup {number}
    ELSE processed_set

\* run_workflow, the body of the loop after execute_pr: the result goes
\* into the report, the snapshot is saved, and the loop goes on
PrDone(written) ==
    /\ wf_pc = "pr_done"
    /\ run.mode = "workflow"
    /\ LET pr == CurrentPr
           r == run.pr_result.v
           pushed ==
               [snapshot EXCEPT !.report =
                   Append(@, IF r.tag = "Ok" THEN r.v
                             ELSE FailedResult(pr.number, r.message))]
           sorted == [pushed EXCEPT !.report = sort_by_key(@)]
           counted == [run EXCEPT
                          !.processed_set = Processed(@, r, pr.number),
                          !.failures = IF r.tag = "Ok" THEN @ ELSE @ + 1]
       IN /\ snapshot' = sorted
          /\ snapshot_file' = save_json(snapshot_file, sorted, written)
          /\ IF ~written
             THEN /\ run' = counted
                  /\ wf_pc' = "idle"
                  /\ hist' = [hist EXCEPT
                                 !.returned = "Err",
                                 !.calls = <<>>,
                                 !.trail = Append(@, Step("execute_pr",
                                                          r.tag = "Ok"))]
             ELSE /\ hist' = [hist EXCEPT
                                 !.calls = <<>>,
                                 !.trail = Append(@, Step("execute_pr",
                                                          r.tag = "Ok"))]
                  /\ IF HasNext(r, run.ordinal, Len(run.new_prs))
                     THEN /\ run' = [counted EXCEPT !.ordinal = @ + 1]
                          /\ wf_pc' = "execute_pr"
                     ELSE /\ run' = counted
                          /\ wf_pc' = "final_checkout"
    /\ UNCHANGED <<settings, state, state_file, counter>>

\* the terminal status after the loop
FailedWithoutMessage(snap, failures) ==
    IF failures > 0
    THEN [snap EXCEPT !.status = "Failed", !.stage = "Failed"]
    ELSE [snap EXCEPT !.status = "Succeeded", !.stage = "Completed"]
AlwaysSucceeded(snap, failures) ==
    [snap EXCEPT !.status = "Succeeded", !.stage = "Completed"]
TerminalSnapshot(snap, failures) ==
    IF failures > 0
    THEN [snap EXCEPT !.status = "Failed", !.stage = "Failed",
                      !.error_message =
                          Some(<<ToString(failures), " PR(s) failed">>)]
    ELSE [snap EXCEPT !.status = "Succeeded", !.stage = "Completed"]

\* run_workflow after the loop: the checkout of the default branch has
\* returned, whatever it returned.  failing is the write that fails: none
\* (0), the engine state (1), the snapshot (2)
FinishRun(proc, failing) ==
    /\ wf_pc = "final_checkout"
    /\ run.mode = "workflow"
    /\ LET ignored == run_shell(<<"git", "checkout">>
                                \o sh_quote(settings.default_branch),
                                FALSE, proc)
           finished == FinishedState(state, SortedNumbers(run.processed_set),
                                     counter)
           terminal == [TerminalSnapshot(snapshot, run.failures)
                           EXCEPT !.finished_at = Some(utc_now)]
       IN /\ state' = finished.state
          /\ counter' = finished.counter
          /\ state_file' = save_json(state_file, finished.state,
                                     failing /= 1)
          /\ wf_pc' = "idle"
          /\ snapshot' = IF failing = 1 THEN snapshot ELSE terminal
          /\ snapshot_file' = save_json(snapshot_file, terminal, failing = 0)
          /\ hist' = [hist EXCEPT
                         !.checkout_exit = Some(ignored.result.exit_code),
                         !.trail = @ \o
                             <<Step("final_checkout",
                                    ignored.result.exit_code = 0),
                               Step("merge", TRUE),
                               Step("persist", failing = 0)>>,
                         !.returned = IF failing = 0 THEN "Ok" ELSE "Err"]
    /\ UNCHANGED <<settings, run>>

\* the process dies during a run: what it held in memory is gone, the
\* files stay
Crash ==
    /\ wf_pc /= "idle"
    /\ wf_pc' = "idle"
    /\ state' = EngineState(<<>>, None, NoKeys)
    /\ snapshot' = DefaultSnapshot
    /\ run' = NoRun
    /\ counter' = empty_for_current_month(clock)
    /\ hist' = [hist EXCEPT
                   !.returned = "crashed",
                   !.calls = <<>>,
                   !.interrupted =
                       IF run.mode = "workflow" THEN @ \cup hist.completed
                       ELSE @]
    /\ UNCHANGED <<settings, state_file, snapshot_file>>

(***************************************************************************)
(* run_single_pr_by_number                                                 *)
(***************************************************************************)
\* what the tools and the repository do during fetch_open_prs_with_state:
\* nothing fails, or one of its steps does
FetchOk ==
    [missing |-> {}, sync |-> ProcOk, list |-> ProcOk,
     fs |-> [dir |-> "populated", work_tree |-> TRUE, clone |-> ProcOk]]
FetchEnvs ==
    {FetchOk,
     [FetchOk EXCEPT !.missing = {"codex"}],
     [FetchOk EXCEPT !.fs.work_tree = FALSE],
     [FetchOk EXCEPT !.sync = ProcFail],
     [FetchOk EXCEPT !.list = ProcFail]}

\* fetch_open_prs_with_state(paths, true)
fetch_open_prs_with_state(s, st, env, prs) ==
    LET valid == validate_command_templates(s)
        checked == validate_required_commands(env.missing)
        ready == ensure_repo_ready(s, env.fs)
        synced == sync_repository("fetch", env.sync)
        listed == list_open_prs(env.list, prs)
    IN IF valid.tag = "Err" THEN valid
       ELSE IF checked.tag = "Err" THEN checked
       ELSE IF ready.tag = "Err" THEN ready
       ELSE IF synced.tag = "Err" THEN synced
       ELSE IF listed.tag = "Err" THEN listed
       ELSE AOk([settings |-> s, prs |-> sort_by(listed.v),
                 processed_set |-> CollectProcessed(st)])

\* Iterator::find(|item| item.number == pr_number)
TakeFirst(prs, pr_number) == IF prs = <<>> THEN None ELSE Some(prs[1])
find(prs, pr_number) ==
    LET at == {i \in 1..Len(prs) : prs[i].number = pr_number}
    IN IF at = {} THEN None
       ELSE Some(prs[CHOOSE i \in at : \A j \in at : i <= j])

\* the calls of fetch_open_prs_with_state of a run: the settings, what the
\* tools and the repository do and the open PRs; of the calls with the same
\* settings that fail, and of those that return the same PRs, one
FetchCalls ==
    LET calls == [s : SettingsFiles, env : FetchEnvs, prs : WorkflowPrLists]
        Fetched(call) ==
            LET fetched == fetch_open_prs_with_state(
                               call.s, EngineState(<<>>, None, NoKeys),
                               call.env, call.prs)
            IN <<call.s, fetched.tag,
                 IF fetched.tag = "Err" THEN <<>> ELSE fetched.v.prs>>
    IN {CHOOSE call \in calls : Fetched(call) = fetched :
            fetched \in {Fetched(call) : call \in calls}}

\* run_single_pr_by_number is called: up to the call of execute_pr
StartSinglePr(s, pr_number, env, prs, written) ==
    /\ wf_pc = "idle"
    /\ hist.runs < MaxRuns
    /\ settings' = s
    /\ state' = state_file
    /\ counter' = initialize_monthly_fix_counter(
                      state_file.monthly_fixed_pr_numbers_by_month, clock)
    /\ LET fetched == fetch_open_prs_with_state(s, state_file, env, prs)
           pr == find(fetched.v.prs, pr_number)
           started == NewSnapshot(utc_now, "ReviewingPr", 1)
       IN IF fetched.tag = "Err" \/ ~pr.some
          THEN /\ written    \* nothing is written on this path, and
                              \* no snapshot is built
               /\ wf_pc' = "idle"
               /\ run' = [NoRun EXCEPT !.mode = "single",
                                       !.pr_number = pr_number]
               /\ hist' = [StartedHistory EXCEPT !.returned = "Err"]
               /\ snapshot' = DefaultSnapshot
               /\ UNCHANGED snapshot_file
          ELSE /\ run' = [NoRun EXCEPT
                             !.mode = "single",
                             !.pr_number = pr_number,
                             !.new_prs = <<pr.v>>,
                             !.ordinal = 1,
                             !.processed_set = fetched.v.processed_set]
               /\ snapshot' = started
               /\ snapshot_file' = save_json(snapshot_file, started, written)
               /\ wf_pc' = IF written THEN "execute_pr" ELSE "idle"
               /\ hist' = [StartedHistory EXCEPT
                              !.returned = IF written THEN "none" ELSE "Err"]
    /\ UNCHANGED state_file

\* run_single_pr_by_number, the match on what execute_pr returned
SinglePrDone ==
    /\ wf_pc = "pr_done"
    /\ run.mode = "single"
    /\ LET pr == CurrentPr
           r == run.pr_result.v
       IN IF r.tag = "Ok"
          THEN /\ snapshot' = [snapshot EXCEPT !.report = Append(@, r.v),
                                               !.status = "Succeeded",
                                               !.stage = "Completed"]
               /\ run' = [run EXCEPT !.processed_set = @ \cup {pr.number}]
          ELSE /\ snapshot' =
                      [snapshot EXCEPT
                                   !.status = "Failed",
                                   !.stage = "Failed",
                                   !.error_message = Some(r.message),
                                   !.report = Append(
                                       @, FailedResult(pr.number, r.message))]
               /\ run' = [run EXCEPT !.failures = @ + 1]
    /\ wf_pc' = "final_checkout"
    /\ hist' = [hist EXCEPT !.calls = <<>>]
    /\ UNCHANGED <<settings, state, state_file, snapshot_file, counter>>

\* run_single_pr_by_number after the checkout of the default branch.
\* failing is the write that fails: none (0), the engine state (1), the
\* snapshot (2)
FinishSingleRun(proc, failing) ==
    /\ wf_pc = "final_checkout"
    /\ run.mode = "single"
    /\ LET ignored == run_shell(<<"git", "checkout">>
                                \o sh_quote(settings.default_branch),
                                FALSE, proc)
           finished == FinishedState(state, SortedNumbers(run.processed_set),
                                     counter)
           terminal == [snapshot EXCEPT !.finished_at = Some(utc_now),
                                        !.current_index = 1]
       IN /\ state' = finished.state
          /\ counter' = finished.counter
          /\ state_file' = save_json(state_file, finished.state,
                                     failing /= 1)
          /\ wf_pc' = "idle"
          /\ snapshot' = IF failing = 1 THEN snapshot ELSE terminal
          /\ snapshot_file' = save_json(snapshot_file, terminal, failing = 0)
          /\ hist' = [hist EXCEPT
                         !.checkout_exit = Some(ignored.result.exit_code),
                         !.returned = IF failing = 0 THEN "Ok" ELSE "Err"]
    /\ UNCHANGED <<settings, run>>

(***************************************************************************)
(* run_shell_internal with stream_output: the two reader threads, the      *)
(* channel and the loop of the caller                                      *)
(***************************************************************************)
\* what a pipe of the process delivers: lines, and possibly a line that
\* BufRead::lines cannot return (bytes that are not UTF-8, a read error)
Unreadable == "\\xff"
StreamItems == {"one", "two", Unreadable}
StreamOutputs ==
    {<<>>} \cup {<<a>> : a \in StreamItems}
    \cup {<<a, b>> : a \in StreamItems, b \in StreamItems}

\* the processes a streaming call is run against
StreamProcs ==
    [kind : {"exited"}, status : {[code |-> Some(0)], [code |-> Some(1)]},
     stdout : StreamOutputs, stderr : StreamOutputs]
    \cup [kind : {"wait_error"}, status : {[code |-> None]},
          stdout : StreamOutputs, stderr : StreamOutputs]

\* the two pipes, and the flag a reader sends with a line of its pipe
Pipes == {"stdout", "stderr"}
IsStdout(pipe) == pipe = "stdout"

\* reader.lines().map_while(Result::ok): the reader of a pipe goes on while
\* the next item is a line it can return
ReadsOn(pipe_output, pos) ==
    pos < Len(pipe_output) /\ pipe_output[pos + 1] /= Unreadable

\* the lines a reader returns of what its pipe delivers: those before the
\* first it cannot read
RECURSIVE LinesRead(_)
LinesRead(pipe_output) ==
    IF pipe_output = <<>> \/ Head(pipe_output) = Unreadable THEN <<>>
    ELSE <<Head(pipe_output)>> \o LinesRead(Tail(pipe_output))

\* mpsc::Receiver as an iterator: the message received next
RecvNewest(chan) == Len(chan)
RecvIndex(chan) == 1

\* the channel without its message at index i
WithoutMessage(chan, i) ==
    SubSeq(chan, 1, i - 1) \o SubSeq(chan, i + 1, Len(chan))

\* the buffer a received line is pushed to
PushToOther(is_stdout) == IF is_stdout THEN "stderr" ELSE "stdout"
PushTo(is_stdout) == IF is_stdout THEN "stdout" ELSE "stderr"

\* the loop over rx ends when every sender is dropped and the channel is
\* empty
EndsWhenEmpty(chan, done) == chan = <<>>
ChannelClosed(chan, done) == chan = <<>> /\ done = Pipes

InitStream ==
    /\ st_pc = "idle"
    /\ st_call = NoCall
    /\ st_pos = [p \in Pipes |-> 0]
    /\ st_done = {}
    /\ st_chan = <<>>
    /\ st_buf = [p \in Pipes |-> <<>>]
    /\ st_return = None

\* the call up to the loop over rx: the process and both readers run
StreamCall(command, fail_on_non_zero, proc) ==
    /\ st_pc = "idle"
    /\ st_call' = [made |-> TRUE, command |-> command,
                   fail_on_non_zero |-> fail_on_non_zero, proc |-> proc]
    /\ st_pos' = [p \in Pipes |-> 0]
    /\ st_done' = {}
    /\ st_chan' = <<>>
    /\ st_buf' = [p \in Pipes |-> <<>>]
    /\ st_return' = None
    /\ st_pc' = "receiving"

\* the reader of a pipe reads a line and sends it
ReaderSend(pipe) ==
    /\ st_pc = "receiving"
    /\ pipe \notin st_done
    /\ ReadsOn(st_call.proc[pipe], st_pos[pipe])
    /\ st_chan' = Append(st_chan, [is_stdout |-> IsStdout(pipe),
                                   line |-> st_call.proc[pipe][st_pos[pipe] + 1]])
    /\ st_pos' = [st_pos EXCEPT ![pipe] = @ + 1]
    /\ UNCHANGED <<st_pc, st_call, st_done, st_buf, st_return>>

\* the reader of a pipe ends, and its sender is dropped
ReaderEnd(pipe) ==
    /\ st_pc = "receiving"
    /\ pipe \notin st_done
    /\ ~ReadsOn(st_call.proc[pipe], st_pos[pipe])
    /\ st_done' = st_done \cup {pipe}
    /\ UNCHANGED <<st_pc, st_call, st_pos, st_chan, st_buf, st_return>>

\* one iteration of the loop over rx
StreamReceive ==
    /\ st_pc = "receiving"
    /\ st_chan /= <<>>
    /\ LET i == RecvIndex(st_chan)
           message == st_chan[i]
           buffer == PushTo(message.is_stdout)
       IN /\ st_buf' = [st_buf EXCEPT
                           ![buffer] = @ \o <<message.line, "\n">>]
          /\ st_chan' = WithoutMessage(st_chan, i)
    /\ UNCHANGED <<st_pc, st_call, st_pos, st_done, st_return>>

\* the loop over rx is left: child.wait() and the result
StreamReturn ==
    /\ st_pc = "receiving"
    /\ ChannelClosed(st_chan, st_done)
    /\ LET proc == st_call.proc
           result == CommandResult(unwrap_or(proc.status.code, -1),
                                   st_buf["stdout"], st_buf["stderr"])
       IN st_return' =
              Some(IF proc.kind /= "exited"
                   THEN ProcessIoError(st_call.command, TRUE, proc)
                   ELSE IF FailsOnNonZero(st_call.fail_on_non_zero, result)
                   THEN ErrNonZero(st_call.command, result)
                   ELSE Ok(result))
    /\ st_pc' = "returned"
    /\ UNCHANGED <<st_call, st_pos, st_done, st_chan, st_buf>>

streamVars == <<st_pc, st_call, st_pos, st_done, st_chan, st_buf, st_return>>

(***************************************************************************)
(* store.rs: save_json and load_json_or_default, with the JSON that serde  *)
(* writes and reads for EngineState and RunSnapshot                        *)
(***************************************************************************)
\* serde_json::Value
JNull == [t |-> "null"]
JBool(b) == [t |-> "bool", b |-> b]
JNum(n) == [t |-> "number", n |-> n]
JStr(s) == [t |-> "string", s |-> s]
JArr(a) == [t |-> "array", a |-> a]
JObj(fields) == [t |-> "object", fields |-> fields]

\* the decimal digits of a number, and the number of decimal digits
RECURSIVE Digits(_)
Digits(n) == IF n < 10 THEN <<n>> ELSE Append(Digits(n \div 10), n % 10)

RECURSIVE FromDigits(_)
FromDigits(ds) ==
    IF Len(ds) = 1 THEN ds[1]
    ELSE 10 * FromDigits(SubSeq(ds, 1, Len(ds) - 1)) + ds[Len(ds)]

\* DateTime<Utc> as serde writes and reads it: a string of its digits
DateTimeToJson(time) == JStr(Digits(time))
DateTimeFromJson(json) == FromDigits(json.s)

\* Option<T>: None is null
OptionToJson(opt) == IF opt.some THEN opt.v ELSE JNull
OptionFromJson(json) == IF json = JNull THEN None ELSE Some(json)

OptionalTimeToJson(opt) ==
    OptionToJson(IF opt.some THEN Some(DateTimeToJson(opt.v)) ELSE None)
OptionalTimeFromJson(json) ==
    LET opt == OptionFromJson(json)
    IN IF opt.some THEN Some(DateTimeFromJson(opt.v)) ELSE None

OptionalNumberToJson(opt) ==
    OptionToJson(IF opt.some THEN Some(JNum(opt.v)) ELSE None)
OptionalNumberFromJson(json) ==
    LET opt == OptionFromJson(json)
    IN IF opt.some THEN Some(opt.v.n) ELSE None

OptionalStringToJson(opt) ==
    OptionToJson(IF opt.some THEN Some(JStr(opt.v)) ELSE None)
OptionalStringFromJson(json) ==
    LET opt == OptionFromJson(json)
    IN IF opt.some THEN Some(opt.v.s) ELSE None

\* Vec<u64>
NumbersToJson(v) == JArr([i \in 1..Len(v) |-> JNum(v[i])])
NumbersFromJson(json) == [i \in 1..Len(json.a) |-> json.a[i].n]

\* #[serde(rename_all = "snake_case")] of RunStatus and ExecutionStage
SnakeCase ==
    [Idle |-> "idle", Running |-> "running", Succeeded |-> "succeeded",
     Failed |-> "failed", SyncingRepo |-> "syncing_repo",
     LoadingPrs |-> "loading_prs", ReviewingPr |-> "reviewing_pr",
     FixingPr |-> "fixing_pr", PushingChanges |-> "pushing_changes",
     Completed |-> "completed"]
RunStatuses == {"Idle", "Running", "Succeeded", "Failed"}
ExecutionStages ==
    {"Idle", "SyncingRepo", "LoadingPrs", "ReviewingPr", "FixingPr",
     "PushingChanges", "Completed", "Failed"}
VariantToJson(variant) == JStr(SnakeCase[variant])
VariantFromJson(variants, json) ==
    CHOOSE variant \in variants : SnakeCase[variant] = json.s

\* a field of an object, when the object has it
GetField(json, key) ==
    IF key \in DOMAIN json.fields THEN Some(json.fields[key]) ELSE None

\* the fields EngineState declares
EngineStateWithoutLastRun(st) ==
    [processed_pr_numbers |-> NumbersToJson(st.processed_pr_numbers)]
EngineStateFields(st) ==
    [processed_pr_numbers |-> NumbersToJson(st.processed_pr_numbers),
     last_run_at |-> OptionalTimeToJson(st.last_run_at)]

\* the per-month mapping of EngineState, which shell.rs reads and writes:
\* a map from month key to a list of numbers
MonthlyMapToJson(by_month) ==
    JObj([key \in DOMAIN by_month |-> NumbersToJson(by_month[key])])
MonthlyMapFromJson(json) ==
    [key \in DOMAIN json.fields |-> NumbersFromJson(json.fields[key])]

EngineStateToJson(st) ==
    JObj(EngineStateFields(st)
         @@ ("monthly_fixed_pr_numbers_by_month" :>
                 MonthlyMapToJson(st.monthly_fixed_pr_numbers_by_month)))

\* #[serde(default)]: a field the object lacks has the value of Default
EngineStateFromJson(json) ==
    LET processed == GetField(json, "processed_pr_numbers")
        last_run == GetField(json, "last_run_at")
        by_month == GetField(json, "monthly_fixed_pr_numbers_by_month")
    IN EngineState(
           IF processed.some THEN NumbersFromJson(processed.v) ELSE <<>>,
           IF last_run.some THEN OptionalTimeFromJson(last_run.v) ELSE None,
           IF by_month.some THEN MonthlyMapFromJson(by_month.v) ELSE NoKeys)

PrExecutionResultToJson(r) ==
    JObj([number |-> JNum(r.number),
          review_exit_code |-> JNum(r.review_exit_code),
          fix_exit_code |-> JNum(r.fix_exit_code),
          pushed |-> JBool(r.pushed),
          error_message |-> OptionalStringToJson(r.error_message)])
PrExecutionResultFromJson(json) ==
    PrExecutionResult(json.fields.number.n,
                      json.fields.review_exit_code.n,
                      json.fields.fix_exit_code.n,
                      json.fields.pushed.b,
                      OptionalStringFromJson(json.fields.error_message))

RunSnapshotToJson(snap) ==
    JObj([started_at |-> OptionalTimeToJson(snap.started_at),
          finished_at |-> OptionalTimeToJson(snap.finished_at),
          status |-> VariantToJson(snap.status),
          stage |-> VariantToJson(snap.stage),
          total_prs |-> JNum(snap.total_prs),
          current_index |-> JNum(snap.current_index),
          current_pr_number |-> OptionalNumberToJson(snap.current_pr_number),
          error_message |-> OptionalStringToJson(snap.error_message),
          report |-> JArr([i \in 1..Len(snap.report) |->
                              PrExecutionResultToJson(snap.report[i])])])

RunSnapshotFromJson(json) ==
    LET field(key) == GetField(json, key)
        d == DefaultSnapshot
    IN [started_at |-> IF field("started_at").some
                       THEN OptionalTimeFromJson(field("started_at").v)
                       ELSE d.started_at,
        finished_at |-> IF field("finished_at").some
                        THEN OptionalTimeFromJson(field("finished_at").v)
                        ELSE d.finished_at,
        status |-> IF field("status").some
                   THEN VariantFromJson(RunStatuses, field("status").v)
                   ELSE d.status,
        stage |-> IF field("stage").some
                  THEN VariantFromJson(ExecutionStages, field("stage").v)
                  ELSE d.stage,
        total_prs |-> IF field("total_prs").some
                      THEN field("total_prs").v.n ELSE d.total_prs,
        current_index |-> IF field("current_index").some
                          THEN field("current_index").v.n
                          ELSE d.current_index,
        current_pr_number |->
            IF field("current_pr_number").some
            THEN OptionalNumberFromJson(field("current_pr_number").v)
            ELSE d.current_pr_number,
        error_message |->
            IF field("error_message").some
            THEN OptionalStringFromJson(field("error_message").v)
            ELSE d.error_message,
        report |-> IF field("report").some
                   THEN [i \in 1..Len(field("report").v.a) |->
                            PrExecutionResultFromJson(field("report").v.a[i])]
                   ELSE d.report]

\* the two files of the store
StoreKinds == {"state", "snapshot"}

\* serde_json::to_string_pretty and serde_json::from_str::<T>
to_string_pretty(kind, value) ==
    IF kind = "state" THEN EngineStateToJson(value)
    ELSE RunSnapshotToJson(value)
from_str(kind, content) ==
    IF kind = "state" THEN EngineStateFromJson(content)
    ELSE RunSnapshotFromJson(content)

\* T::default()
DefaultValue(kind) ==
    IF kind = "state" THEN EngineState(<<>>, None, NoKeys)
    ELSE DefaultSnapshot

\* load_json_or_default; file is None when the path does not exist
load_json_or_default(kind, file) ==
    IF ~file.some THEN DefaultValue(kind) ELSE from_str(kind, file.v)

\* the values saved
StoreTimes == {None, Some(0), Some(7), Some(120)}
StoredMonthlyMaps ==
    {NoKeys,
     (current_month_key(FirstMonth) :> <<10>>),
     (current_month_key(FirstMonth) :> <<>>)
         @@ (current_month_key(FirstMonth + 2) :> <<10, 11>>)}
StoredEngineStates ==
    {EngineState(Ascending(processed), last_run, by_month) :
        processed \in SUBSET {10, 11}, last_run \in StoreTimes,
        by_month \in StoredMonthlyMaps}
StoredReports ==
    {<<>>,
     <<PrExecutionResult(10, 0, 0, TRUE, None)>>,
     <<PrExecutionResult(10, -1, -1, FALSE,
                         Some(<<"failed to write file: ", "state">>)),
       PrExecutionResult(11, 0, 0, FALSE, None)>>}
StoredSnapshots ==
    [started_at : {None, Some(7)}, finished_at : {None, Some(120)},
     status : {"Idle", "Running", "Failed"},
     stage : ExecutionStages, total_prs : {0, 2}, current_index : {0, 2},
     current_pr_number : {None, Some(11)},
     error_message : {None, Some(<<"1", " PR(s) failed">>)},
     report : StoredReports]

InitStore ==
    /\ store_pc = "idle"
    /\ store_kind = "state"
    /\ store_value = None
    /\ store_file = None
    /\ store_loaded = None

\* save_json(path, value)
StoreSave(kind, value) ==
    /\ store_pc = "idle"
    /\ store_kind' = kind
    /\ store_value' = Some(value)
    /\ store_file' = save_json(store_file,
                               Some(to_string_pretty(kind, value)), TRUE)
    /\ store_pc' = "saved"
    /\ UNCHANGED store_loaded

\* load_json_or_default(path), of the file saved or of a file that does not
\* exist
StoreLoad(kind) ==
    /\ store_pc \in {"idle", "saved"}
    /\ store_pc = "saved" => kind = store_kind
    /\ store_kind' = kind
    /\ store_loaded' = Some(load_json_or_default(kind, store_file))
    /\ store_pc' = "loaded"
    /\ UNCHANGED <<store_value, store_file>>

storeVars == <<store_pc, store_kind, store_value, store_file, store_loaded>>

(***************************************************************************)
(* value_contains_login: the search of a login in the JSON gh printed      *)
(***************************************************************************)
\* a string as its characters
Chars(a, b) == <<a, b>>

\* u8::to_ascii_lowercase, for the characters of the strings modelled
to_ascii_lowercase(c) ==
    CASE c = "B" -> "b"
      [] c = "O" -> "o"
      [] OTHER -> c

\* str::eq_ignore_ascii_case
SameCaseOnly(a, b) == a = b
eq_ignore_ascii_case(a, b) ==
    /\ Len(a) = Len(b)
    /\ \A i \in 1..Len(a) : to_ascii_lowercase(a[i]) = to_ascii_lowercase(b[i])

\* value_contains_login(value, login_lower)
RECURSIVE value_contains_login(_, _)
value_contains_login(value, login_lower) ==
    IF value.t = "object"
    THEN LET login == GetField(value, "login")
         IN \/ /\ login.some
               /\ login.v.t = "string"
               /\ eq_ignore_ascii_case(login.v.s, login_lower)
            \/ \E k \in DOMAIN value.fields :
                   value_contains_login(value.fields[k], login_lower)
    ELSE IF value.t = "array"
    THEN \E i \in 1..Len(value.a) :
             value_contains_login(value.a[i], login_lower)
    ELSE FALSE

\* the values searched: strings that are the login, the login in another
\* case, a string the login is a part of, and another string; under the key
\* login and under other keys; in objects and arrays nested to MaxNesting
MaxNesting == 4
LoginStrings ==
    {Chars("b", "o"), Chars("B", "O"), <<"b", "o", "t">>, <<"a">>}
LoginKeys == {"login", "login_name", "user"}
LoginLeaves == {JNull, JNum(1)} \cup {JStr(s) : s \in LoginStrings}

ObjectsOf(values) ==
    {JObj(fields) :
        fields \in UNION {[keys -> values] :
                             keys \in {{}} \cup {{k} : k \in LoginKeys}}}
ArraysOf(values) == {JArr(<<>>)} \cup {JArr(<<v>>) : v \in values}

RECURSIVE LoginValues(_)
LoginValues(nesting) ==
    IF nesting = 0 THEN LoginLeaves
    ELSE LET inner == LoginValues(nesting - 1)
         IN inner \cup ObjectsOf(inner) \cup ArraysOf(inner)

\* two entries side by side, as the reviews of a PR are
LoginPairs ==
    {JArr(<<JObj("login" :> JStr(s)), JObj("login" :> JStr(t))>>) :
        s, t \in LoginStrings}
    \cup {JObj(("login_name" :> JStr(s)) @@ ("login" :> v)) :
             s \in LoginStrings, v \in LoginValues(1)}

InitLogin ==
    /\ login_pc = "idle"
    /\ login_value = JNull
    /\ login_arg = <<>>
    /\ login_found = FALSE

\* a call of value_contains_login and its return
ContainsLoginCall(value, login_lower) ==
    /\ login_pc = "idle"
    /\ login_value' = value
    /\ login_arg' = login_lower
    /\ login_found' = value_contains_login(value, login_lower)
    /\ login_pc' = "returned"

loginVars == <<login_pc, login_value, login_arg, login_found>>

(***************************************************************************)
(* The monthly counter behind its Mutex, called from several threads       *)
(***************************************************************************)
Threads == {"main", "worker"}
NoOwner == "none"

CounterOps == {"initialize", "count", "record", "sync"}

\* the PR numbers recorded and the months of the wall clock, with threads
LockedPrs == {1, 2}
LockedMonths == {FirstMonth, FirstMonth + 1}

\* a thread: where it is in its call, the operation and its argument, what
\* initialize read of the engine state, whether another thread held the
\* lock when the call began, and whether a record that returned true
\* awaits its sync
IdleThread ==
    [pc |-> "idle", op |-> "none", pr_number |-> 0, loaded |-> None,
     waited |-> FALSE, owes_sync |-> FALSE]

\* Mutex::lock returns once no thread holds the lock
NeverHeld(owner) == TRUE
Available(owner) == owner = NoOwner

\* what a call returns when lock() is Err: the value after the if let
AsIfCounted(op) ==
    CASE op = "count" -> 1
      [] op = "record" -> TRUE
      [] OTHER -> "unit"
PoisonedReturn(op) ==
    CASE op = "count" -> 0
      [] op = "record" -> FALSE
      [] OTHER -> "unit"

\* the call that returned last: the thread, the operation, its argument,
\* the month key of the counter as the call left it, what it returned,
\* whether lock() was Err, and whether the call began with the lock held by
\* another thread
CallResult(t, month_key, returns, lock_err) ==
    [thread |-> t, op |-> threads[t].op, pr_number |-> threads[t].pr_number,
     month_key |-> month_key, returns |-> returns, lock_err |-> lock_err,
     waited |-> threads[t].waited]

InitLock ==
    /\ lock_owner = NoOwner
    /\ poisoned = FALSE
    /\ threads = [t \in Threads |-> IdleThread]
    /\ last_return = None

\* a thread calls a function of the counter.  initialize_monthly_fix_counter
\* reads the engine state before it takes the lock; a run calls it at its
\* start, before any other call of the counter, and syncs after a record
\* that returned true
CounterCall(t, op, pr_number) ==
    /\ threads[t].pc = "idle"
    /\ threads[t].owes_sync => op = "sync"
    /\ \A u \in Threads \ {t} : threads[u].op /= "initialize"
                                \/ threads[u].pc \in {"idle", "panicked"}
    /\ op = "initialize" =>
           \A u \in Threads : \/ threads[u].pc = "panicked"
                              \/ /\ threads[u].pc = "idle"
                                 /\ ~threads[u].owes_sync
    /\ threads' = [threads EXCEPT ![t] =
           [IdleThread EXCEPT
               !.pc = "lock", !.op = op, !.pr_number = pr_number,
               !.owes_sync = threads[t].owes_sync,
               !.waited = lock_owner /= NoOwner,
               !.loaded =
                   IF op = "initialize"
                   THEN Some(initialize_monthly_fix_counter(
                                 monthly_fixed_pr_numbers_by_month, clock))
                   ELSE None]]
    /\ UNCHANGED <<lock_owner, poisoned, last_return, counter, clock,
                   monthly_fixed_pr_numbers_by_month, true_returns>>

\* monthly_fix_counter().lock(): Ok(guard), or Err when the lock is poisoned,
\* and then the call returns
MutexLock(t) ==
    /\ threads[t].pc = "lock"
    /\ Available(lock_owner)
    /\ IF poisoned
       THEN /\ threads' = [threads EXCEPT ![t] = IdleThread]
            /\ last_return' =
                   Some(CallResult(t, counter.month_key,
                                   PoisonedReturn(threads[t].op), TRUE))
            /\ UNCHANGED lock_owner
       ELSE /\ lock_owner' = t
            /\ threads' = [threads EXCEPT ![t].pc =
                              IF threads[t].op = "initialize"
                              THEN "access" ELSE "rotate"]
            /\ UNCHANGED last_return
    /\ UNCHANGED <<poisoned, counter, clock,
                   monthly_fixed_pr_numbers_by_month, true_returns>>

\* counter.rotate_if_needed(), under the lock
LockedRotate(t) ==
    /\ threads[t].pc = "rotate"
    /\ counter' = rotate_if_needed(counter, clock)
    /\ threads' = [threads EXCEPT ![t].pc = "access"]
    /\ UNCHANGED <<lock_owner, poisoned, last_return, clock,
                   monthly_fixed_pr_numbers_by_month, true_returns>>

\* a thread panics while it holds the guard, before the counter is
\* written: the guard is dropped in the unwinding and the lock is poisoned
PanicUnderLock(t) ==
    /\ threads[t].pc = "rotate"
    /\ poisoned' = TRUE
    /\ lock_owner' = NoOwner
    /\ threads' = [threads EXCEPT ![t].pc = "panicked"]
    /\ UNCHANGED <<last_return, counter, clock,
                   monthly_fixed_pr_numbers_by_month, true_returns>>

\* HashSet::insert: the set after it, and whether the value was new
insert(set, value) ==
    [set |-> set \cup {value}, returns |-> value \notin set]

\* the read or write that follows the rotation, and the drop of the guard
\* as the call returns
LockedAccess(t) ==
    /\ threads[t].pc = "access"
    /\ LET op == threads[t].op
           pr_number == threads[t].pr_number
           inserted == insert(counter.pr_numbers, pr_number)
           pair == <<counter.month_key, pr_number>>
           before == IF pair \in DOMAIN true_returns
                     THEN true_returns[pair] ELSE 0
           returns ==
               CASE op = "count" -> Cardinality(counter.pr_numbers)
                 [] op = "record" -> inserted.returns
                 [] OTHER -> "unit"
           left == IF op = "initialize" THEN threads[t].loaded.v
                   ELSE IF op = "record"
                   THEN [counter EXCEPT !.pr_numbers = inserted.set]
                   ELSE counter
       IN /\ counter' = left
          /\ monthly_fixed_pr_numbers_by_month' =
                 IF op = "sync"
                 THEN MapInsert(monthly_fixed_pr_numbers_by_month,
                                counter.month_key,
                                Ascending(counter.pr_numbers))
                 ELSE monthly_fixed_pr_numbers_by_month
          /\ true_returns' =
                 IF op = "record" /\ inserted.returns
                 THEN [q \in DOMAIN true_returns \cup {pair} |->
                          IF q = pair THEN (IF before = 0 THEN 1 ELSE 2)
                          ELSE true_returns[q]]
                 ELSE true_returns
          /\ threads' = [threads EXCEPT ![t] =
                 [IdleThread EXCEPT
                     !.owes_sync =
                         CASE op = "record" -> inserted.returns
                           [] op = "sync" -> FALSE
                           [] OTHER -> threads[t].owes_sync]]
          /\ last_return' =
                 Some(CallResult(t, left.month_key, returns, FALSE))
    /\ lock_owner' = NoOwner
    /\ UNCHANGED <<poisoned, clock>>

\* the wall clock passes the end of a month while threads call the counter
LockedMonthRollover ==
    /\ clock + 1 \in LockedMonths
    /\ clock' = clock + 1
    /\ UNCHANGED <<lock_owner, poisoned, threads, last_return, counter,
                   monthly_fixed_pr_numbers_by_month, true_returns>>

lockVars == <<lock_owner, poisoned, threads, last_return>>

workflowVars == <<wf_pc, settings, state, state_file, snapshot,
                  snapshot_file, run, hist>>

ReviewProcs == WorkflowProcs \cup {ProcConflict}

vars == <<lockVars, loginVars, storeVars, streamVars, shellVars, retryVars,
          selectVars, counterVars, logVars, workflowVars>>

Init ==
    /\ InitLock
    /\ InitLogin
    /\ InitStore
    /\ InitStream
    /\ InitShell
    /\ InitRetry
    /\ InitSelect
    /\ InitCounter
    /\ InitLog
    /\ InitWorkflow

NextShell ==
    /\ \E command \in Commands, fail_on_non_zero \in BOOLEAN,
          stream_output \in BOOLEAN, proc \in ProcOutcomes :
          RunShellInternal(command, fail_on_non_zero, stream_output, proc)
    /\ UNCHANGED <<lockVars, loginVars, storeVars, streamVars, retryVars,
                   selectVars, counterVars, logVars, workflowVars>>

NextRetry ==
    /\ \/ \E command \in Commands, retries \in 0..MaxRetries,
             retry_delay_seconds \in 0..MaxDelay, stream_output \in BOOLEAN :
             RetryCall(command, retries, retry_delay_seconds, stream_output)
       \/ \E proc \in RetryProcOutcomes : RetryAttempt(proc)
       \/ RetryWake
    /\ UNCHANGED <<lockVars, loginVars, storeVars, streamVars, shellVars,
                   selectVars, counterVars, logVars, workflowVars>>

NextSelect ==
    /\ sel_pc = "idle"
    /\ \E prs \in PrLists(1..MaxPrNumber),
          processed \in SUBSET (1..MaxPrNumber),
          max \in 0..MaxPrsPerRun :
          SelectWorkList(prs, Ascending(processed), max)
    /\ UNCHANGED <<lockVars, loginVars, storeVars, streamVars, shellVars,
                   retryVars, counterVars, logVars, workflowVars>>

NextCounter ==
    /\ \/ MonthRollover
       \/ InitializeCounter
       \/ CountFixedPrs
       \/ \E pr_number \in 1..MaxCountedPr : RecordFixedPr(pr_number)
       \/ SyncCounterIntoState
    /\ UNCHANGED <<lockVars, loginVars, storeVars, streamVars, shellVars,
                   retryVars, selectVars, logVars, workflowVars>>

NextLog ==
    /\ \/ /\ appended = <<>>
          /\ utc_now = 0
          /\ \E period \in 1..Len(LogMessages) : StartLog(period)
       \/ AppendLog
    /\ UNCHANGED <<lockVars, loginVars, storeVars, streamVars, shellVars,
                   retryVars, selectVars, counterVars, workflowVars>>

NextWorkflow ==
    /\ \/ /\ wf_pc = "idle"
          /\ \E load \in SettingsLoads, written \in BOOLEAN :
                StartRun(load.file, load.saved, written)
       \/ \E missing \in MissingTools, written \in BOOLEAN :
             ValidateTools(missing, written)
       \/ \E fs \in RepoDirs, written \in BOOLEAN : PrepareRepo(fs, written)
       \/ \E step \in ToSet(SyncOrder), proc \in WorkflowProcs,
             written \in BOOLEAN : SyncRepo(step, proc, written)
       \/ \E proc \in WorkflowProcs, prs \in WorkflowPrLists,
             failing \in 0..3 : ListPrs(proc, prs, failing)
       \/ \E written \in BOOLEAN : ExecutePr(written)
       \/ \E proc \in WorkflowProcs : CheckoutPr(proc)
       \/ \E proc \in ReviewProcs, failing \in 0..2 : ReviewPr(proc, failing)
       \/ \E proc \in ReviewProcs, failing \in 0..2 :
             ReviewFallback(proc, failing)
       \/ \E proc \in WorkflowProcs, written \in BOOLEAN : FixPr(proc, written)
       \/ \E porcelain \in Porcelains, commit \in WorkflowProcs,
             push \in WorkflowProcs, written \in BOOLEAN :
             PushPr(porcelain, commit, push, written)
       \/ \E written \in BOOLEAN : PrDone(written)
       \/ \E proc \in WorkflowProcs, failing \in 0..2 :
             FinishRun(proc, failing)
       \/ /\ wf_pc = "idle"
          /\ \E call \in FetchCalls, pr_number \in {10, 11},
                written \in BOOLEAN :
                StartSinglePr(call.s, pr_number, call.env, call.prs, written)
       \/ SinglePrDone
       \/ \E proc \in WorkflowProcs, failing \in 0..2 :
             FinishSingleRun(proc, failing)
       \/ Crash
    /\ UNCHANGED <<lockVars, loginVars, storeVars, streamVars, shellVars,
                   retryVars, selectVars, logVars, clock,
                   monthly_fixed_pr_numbers_by_month, cnt_pc, last_call,
                   true_returns>>

NextStream ==
    /\ \/ \E command \in Commands, fail_on_non_zero \in BOOLEAN,
             proc \in StreamProcs :
             StreamCall(command, fail_on_non_zero, proc)
       \/ \E pipe \in Pipes : ReaderSend(pipe)
       \/ \E pipe \in Pipes : ReaderEnd(pipe)
       \/ StreamReceive
       \/ StreamReturn
    /\ UNCHANGED <<lockVars, loginVars, storeVars, shellVars, retryVars,
                   selectVars, counterVars, logVars, workflowVars>>

NextStore ==
    /\ \/ \E value \in StoredEngineStates : StoreSave("state", value)
       \/ \E value \in StoredSnapshots : StoreSave("snapshot", value)
       \/ \E kind \in StoreKinds : StoreLoad(kind)
    /\ UNCHANGED <<lockVars, loginVars, streamVars, shellVars, retryVars,
                   selectVars, counterVars, logVars, workflowVars>>

NextLogin ==
    /\ login_pc = "idle"
    /\ \E value \in LoginValues(MaxNesting) \cup LoginPairs,
          login_lower \in {Chars("b", "o"), Chars("B", "O")} :
          ContainsLoginCall(value, login_lower)
    /\ UNCHANGED <<lockVars, storeVars, streamVars, shellVars, retryVars,
                   selectVars, counterVars, logVars, workflowVars>>

NextLock ==
    /\ \/ \E t \in Threads, op \in CounterOps, pr_number \in LockedPrs :
             /\ op /= "record" => pr_number = 1
             /\ CounterCall(t, op, pr_number)
       \/ \E t \in Threads : MutexLock(t)
       \/ \E t \in Threads : LockedRotate(t)
       \/ \E t \in Threads : PanicUnderLock(t)
       \/ \E t \in Threads : LockedAccess(t)
       \/ LockedMonthRollover
    /\ UNCHANGED <<loginVars, storeVars, streamVars, shellVars, retryVars,
                   selectVars, logVars, workflowVars, cnt_pc, last_call>>

SpecShell == Init /\ [][NextShell]_vars
SpecRetry == Init /\ [][NextRetry]_vars
SpecSelect == Init /\ [][NextSelect]_vars
SpecCounter == Init /\ [][NextCounter]_vars
SpecLog == Init /\ [][NextLog]_vars
SpecWorkflow == Init /\ [][NextWorkflow]_vars
SpecStream == Init /\ [][NextStream]_vars
SpecStore == Init /\ [][NextStore]_vars
SpecLogin == Init /\ [][NextLogin]_vars
SpecLock == Init /\ [][NextLock]_vars

(***************************************************************************)
(* Process executor and retry policy: the claims.                          *)
(***************************************************************************)
AllFailed == \A i \in 1..Len(invocations) : IsErr(invocations[i])
Returned == rw_pc = "returned"
LastInvocation == invocations[Len(invocations)]

\* C1: a call with retry count r whose command fails on every attempt
\* invokes the command exactly r + 1 times before it returns the error,
\* for every r >= 0, r = 0 included.
C1_AttemptsAreRetriesPlusOne ==
    (Returned /\ IsErr(rw_return.v)) => Len(invocations) = rw_retries + 1

\* C2: when every attempt failed, the error returned is the one the last
\* attempt produced, a spawn/wait failure or a non-zero exit alike.
C2_LastErrorReturned ==
    (Returned /\ IsErr(rw_return.v)) =>
        /\ AllFailed
        /\ Len(invocations) >= 1
        /\ rw_return.v = LastInvocation

C2_Witness ==
    /\ Returned
    /\ IsErr(rw_return.v)
    /\ Len(invocations) = 3
    /\ invocations[1].tag = "Io"
    /\ invocations[2].tag = "NonZero"
    /\ invocations[3].tag = "NonZero"
    /\ invocations[3] /= invocations[2]

\* C3: the first successful attempt ends the call: it is the last
\* invocation, its result is what the call returns, and no sleep follows it.
C3_FirstSuccessEndsCall ==
    \A i \in 1..Len(invocations) :
        invocations[i].tag = "Ok" =>
            /\ i = Len(invocations)
            /\ Returned
            /\ rw_return = Some(invocations[i])
            /\ Len(sleeps) = i - 1

C3_Witness ==
    /\ Returned
    /\ rw_return.v.tag = "Ok"
    /\ Len(invocations) = 2
    /\ attempts = 3

\* C4: a sleep happens only after a failed attempt that another attempt
\* follows: while sleeping an attempt is left, a finished call of k attempts
\* slept k - 1 times, and every sleep lasts max(retry_delay_seconds, 1).
C4_SleepOnlyBetweenAttempts ==
    /\ rw_pc = "sleeping" =>
           /\ attempt < attempts
           /\ Len(sleeps) = Len(invocations)
           /\ IsErr(LastInvocation)
    /\ rw_pc = "loop" => Len(sleeps) = Len(invocations)
    /\ Returned => Len(sleeps) = Len(invocations) - 1
    /\ \A j \in 1..Len(sleeps) :
           sleeps[j] = (IF rw_delay >= 1 THEN rw_delay ELSE 1)

C4_Witness ==
    /\ Returned
    /\ Len(invocations) = 3
    /\ Len(sleeps) = 2
    /\ rw_delay = 0

\* C5: the retry policy never returns Ok with a non-zero exit code: an
\* attempt that exits non-zero is a failed attempt, and the call returns an
\* error only after all its attempts were made.
C5_NeverOkWithNonZeroExit ==
    /\ \A i \in 1..Len(invocations) :
           invocations[i].tag = "Ok" => invocations[i].result.exit_code = 0
    /\ (Returned /\ rw_return.v.tag = "Ok") =>
           rw_return.v.result.exit_code = 0
    /\ (Returned /\ IsErr(rw_return.v)) => Len(invocations) = attempts

C5_Witness ==
    /\ Returned
    /\ rw_return.v.tag = "Ok"
    /\ Len(invocations) = 2
    /\ invocations[1].tag = "NonZero"
    /\ invocations[1].result.exit_code = 2

\* the text a process wrote, as the caller finds it in a buffer
HoldsLines(buffer, lines) ==
    /\ Len(buffer) = 2 * Len(lines)
    /\ \A k \in 1..Len(lines) :
           /\ buffer[2 * k - 1] = lines[k]
           /\ buffer[2 * k] = "\n"

CarriesResult(result, code, proc) ==
    /\ result.exit_code = code
    /\ HoldsLines(result.stdout, proc.stdout)
    /\ HoldsLines(result.stderr, proc.stderr)

\* C6: with fail_on_non_zero set a non-zero exit is Err(NonZero) carrying
\* the command text and the full result; with the flag clear it is Ok
\* carrying that exit code; a spawn or wait failure is an Io error in both.
C6_NonZeroConversion ==
    sh_call.made =>
        LET proc == sh_call.proc
            r == sh_result.v
        IN IF proc.kind /= "exited"
           THEN r.tag = "Io"
           ELSE LET code == IF proc.status.code.some
                            THEN proc.status.code.v ELSE -1
                IN IF code /= 0 /\ sh_call.fail_on_non_zero
                   THEN /\ r.tag = "NonZero"
                        /\ r.command = sh_call.command
                        /\ CarriesResult(r.result, code, proc)
                   ELSE /\ r.tag = "Ok"
                        /\ CarriesResult(r.result, code, proc)

C6_Witness ==
    /\ sh_call.made
    /\ sh_call.fail_on_non_zero
    /\ sh_call.proc.kind = "exited"
    /\ sh_call.proc.stderr /= <<>>
    /\ sh_result.v.tag = "NonZero"
    /\ sh_result.v.result.exit_code = 1

(***************************************************************************)
(* The work list: the claims.                                              *)
(***************************************************************************)
Selected == sel_pc = "selected"
ProcessedSet == {processed_pr_numbers[i] : i \in 1..Len(processed_pr_numbers)}
Unprocessed ==
    {i \in 1..Len(open_prs) : open_prs[i].number \notin ProcessedSet}
Kept == {new_prs[i].number : i \in 1..Len(new_prs)}

\* a is updated later than b: the strings differ first at a position where
\* a has the greater digit, or b is a proper prefix of a
Later(a, b) ==
    \E k \in 1..Len(a) :
        /\ \A j \in 1..(k - 1) : j <= Len(b) /\ a[j] = b[j]
        /\ (k > Len(b) \/ (k - 1 < Len(b) /\ a[k] > b[k]))

\* C7: the work list holds no processed PR, is sorted descending by
\* updated_at and is no longer than max_prs_per_run.
C7_WorkListFilteredSortedCapped ==
    Selected =>
        /\ \A i \in 1..Len(new_prs) : new_prs[i].number \notin ProcessedSet
        /\ \A i, j \in 1..Len(new_prs) :
               i < j => ~Later(new_prs[j].updated_at, new_prs[i].updated_at)
        /\ Len(new_prs) <= max_prs_per_run

C7_Witness ==
    /\ Selected
    /\ Len(open_prs) = 3
    /\ Len(new_prs) = 2
    /\ max_prs_per_run = 3
    /\ open_prs[2].number \in ProcessedSet
    /\ Later(open_prs[3].updated_at, open_prs[1].updated_at)

\* C8: when more unprocessed open PRs exist than max_prs_per_run, the work
\* list is max_prs_per_run of them, each once, and no PR left out was
\* updated later than a PR kept.
C8_KeepsMostRecentlyUpdated ==
    (Selected /\ Cardinality(Unprocessed) > max_prs_per_run) =>
        /\ Len(new_prs) = max_prs_per_run
        /\ Cardinality(Kept) = max_prs_per_run
        /\ \A i \in 1..Len(new_prs) :
               \E u \in Unprocessed : open_prs[u] = new_prs[i]
        /\ \A u \in Unprocessed :
               open_prs[u].number \notin Kept =>
                   \A i \in 1..Len(new_prs) :
                       ~Later(open_prs[u].updated_at, new_prs[i].updated_at)

C8_Witness ==
    /\ Selected
    /\ Cardinality(Unprocessed) = 3
    /\ max_prs_per_run = 2
    /\ open_prs[1].number \notin Kept
    /\ Later(open_prs[2].updated_at, open_prs[1].updated_at)
    /\ Later(open_prs[3].updated_at, open_prs[2].updated_at)

(***************************************************************************)
(* The monthly counter and the bounded log: the claims.                    *)
(***************************************************************************)
TrueReturns(month_key, pr_number) ==
    IF <<month_key, pr_number>> \in DOMAIN true_returns
    THEN true_returns[<<month_key, pr_number>>] ELSE 0

\* C9: record_monthly_fixed_pr(n) returns true exactly once per month key
\* and PR number: after any call for n under a month key, one call for that
\* key and n has returned true, the first one, also after a rollover.
C9_RecordTrueOncePerMonth ==
    /\ \A pair \in DOMAIN true_returns : true_returns[pair] <= 1
    /\ last_call.op = "record" =>
           TrueReturns(last_call.month_key, last_call.pr_number) = 1

C9_Witness ==
    /\ last_call.op = "record"
    /\ last_call.returns
    /\ last_call.month_key = current_month_key(FirstMonth + 2)
    /\ TrueReturns(current_month_key(FirstMonth), last_call.pr_number) = 1
    /\ TrueReturns(current_month_key(FirstMonth + 1), last_call.pr_number) = 1

\* C10: log_lines never has more than 500 entries, and it is the last
\* entries appended, in the order they were appended: what was dropped is
\* the oldest.
C10_LogBoundedOldestDropped ==
    /\ Len(log_lines) <= 500
    /\ Len(log_lines) = (IF Len(appended) <= 500 THEN Len(appended) ELSE 500)
    /\ \A i \in 1..Len(log_lines) :
           log_lines[i] = appended[Len(appended) - Len(log_lines) + i]

C10_Witness ==
    /\ Len(appended) = 502
    /\ Len(log_lines) = 500
    /\ log_lines[1] = appended[3]
    /\ log_lines[1] /= log_lines[2]

(***************************************************************************)
(* The orchestrator and the run state machine: the claims.                 *)
(***************************************************************************)
ReportNumbers(snap) == [i \in 1..Len(snap.report) |-> snap.report[i].number]

\* C11: every snapshot file written after a result was appended to the
\* report has the report in ascending order of PR number, whatever the
\* order the PRs were executed in.
C11_PersistedReportSorted ==
    \A i, j \in 1..Len(snapshot_file.report) :
        i < j => snapshot_file.report[i].number
                 < snapshot_file.report[j].number

\* the newer PR 11 was executed before PR 10, and both results are on disk
C11_Witness ==
    /\ hist.executed = <<11, 10>>
    /\ ReportNumbers(snapshot_file) = <<10, 11>>

NoDuplicates(v) == \A i, j \in 1..Len(v) : i /= j => v[i] /= v[j]

\* C12: every engine state file written has processed_pr_numbers without a
\* number twice, and no write takes a number out of it: the set after a run
\* is a superset of the set before.
C12_ProcessedOnlyGrows ==
    [][/\ NoDuplicates(state_file'.processed_pr_numbers)
       /\ ToSet(state_file.processed_pr_numbers)
          \subseteq ToSet(state_file'.processed_pr_numbers)]_vars

\* the second run found PR 11 processed, executed PR 10 alone and has
\* written both
C12_Witness ==
    /\ hist.runs = 2
    /\ hist.returned = "Ok"
    /\ run.mode = "workflow"
    /\ settings.max_prs_per_run = 2
    /\ hist.executed = <<10>>
    /\ hist.completed = {10}
    /\ state_file.processed_pr_numbers = <<10, 11>>

\* the steps of run_workflow before the PRs
StepsBeforePrs == {"tools", "repo", "templates", "sync", "list"}

\* C13: once validate_required_commands, ensure_repo_ready,
\* validate_command_templates, sync_repository or list_open_prs has failed
\* in run_workflow, the run is over, its snapshot has status Failed, stage
\* Failed, error_message and finished_at set, execute_pr was entered for no
\* PR in that run, and the snapshot file holds that snapshot whenever the
\* run returned Ok (save_snapshot did not fail)
C13_FailureBeforePrsEndsRun ==
    hist.failed_step \in StepsBeforePrs =>
        /\ wf_pc = "idle"
        /\ run.mode = "workflow"
        /\ snapshot.status = "Failed"
        /\ snapshot.stage = "Failed"
        /\ snapshot.error_message.some
        /\ snapshot.finished_at.some
        /\ hist.executed = <<>>
        /\ hist.returned \in {"Ok", "Err"}
        /\ hist.returned = "Ok" => snapshot_file = snapshot

\* list_open_prs failed, and the run returned the snapshot it saved
C13_Witness ==
    /\ hist.failed_step = "list"
    /\ hist.returned = "Ok"
    /\ snapshot_file.status = "Failed"
    /\ snapshot_file.stage = "Failed"

\* the numbers of a work list, in its order
PrNumbers(prs) == [i \in 1..Len(prs) |-> prs[i].number]

\* run_workflow has returned Ok(snapshot) after its loop over new_prs (or
\* with no new PR)
WorkflowReturnedOk ==
    /\ run.mode = "workflow"
    /\ wf_pc = "idle"
    /\ hist.returned = "Ok"
    /\ hist.failed_step = "none"

\* C14: in run_workflow execute_pr is entered for the PRs of new_prs in the
\* order of new_prs, whatever it returned for the PRs before; and when the
\* run returns Ok after the loop, execute_pr was entered for every PR of
\* new_prs and the report holds one entry for each of them and no other
\* (its length is total_prs)
C14_EveryPrAttempted ==
    /\ run.mode = "workflow" =>
           /\ Len(hist.executed) <= Len(run.new_prs)
           /\ hist.executed =
                  SubSeq(PrNumbers(run.new_prs), 1, Len(hist.executed))
    /\ WorkflowReturnedOk =>
           /\ hist.executed = PrNumbers(run.new_prs)
           /\ Len(snapshot.report) = snapshot.total_prs
           /\ snapshot.total_prs = Len(run.new_prs)
           /\ NoDuplicates(ReportNumbers(snapshot))
           /\ ToSet(ReportNumbers(snapshot)) = ToSet(PrNumbers(run.new_prs))

\* execute_pr failed for the first PR of two, and the run went on to the
\* second and returned a report of two entries
C14_Witness ==
    /\ WorkflowReturnedOk
    /\ hist.executed = <<11, 10>>
    /\ 11 \notin hist.completed
    /\ 10 \in hist.completed
    /\ Len(snapshot.report) = 2

\* execute_pr returned Err for a PR of this run
SomePrFailed == \E i \in 1..Len(hist.executed) :
                    hist.executed[i] \notin hist.completed

\* C15: when run_workflow returns after its loop, the status of the
\* snapshot is Failed if execute_pr failed for at least one PR and
\* Succeeded if it failed for none, whatever the exit code of the last
\* checkout of the default branch
C15_TerminalStatus ==
    (WorkflowReturnedOk /\ hist.executed /= <<>>) =>
        /\ snapshot.status \in {"Failed", "Succeeded"}
        /\ snapshot.status = "Failed" <=> SomePrFailed
        /\ snapshot.status = "Failed" <=>
               \E i \in 1..Len(snapshot.report) :
                   snapshot.report[i].error_message.some
        /\ snapshot_file.status = snapshot.status

\* the checkout of the default branch failed and the run succeeded
C15_Witness ==
    /\ WorkflowReturnedOk
    /\ hist.executed = <<11, 10>>
    /\ hist.checkout_exit = Some(1)
    /\ snapshot.status = "Succeeded"

\* the one message of the program that mentions "cannot auto clone"
CannotAutoClone ==
    <<"repo_path is empty and settings.repo_clone_url is empty, cannot auto clone">>

\* C16: with settings whose repo_path and repo_clone_url are both empty, a
\* run_workflow whose tools are all found ends with status Failed and an
\* error_message that mentions "cannot auto clone", in the stage Failed
\* reached from SyncingRepo, no PR having been listed or executed
C16_EmptyRepoPathCannotAutoClone ==
    (/\ run.mode = "workflow"
     /\ settings.repo_path = ""
     /\ settings.repo_clone_url = ""
     /\ wf_pc = "idle"
     /\ hist.returned = "Ok"
     /\ hist.failed_step /= "tools") =>
        /\ snapshot.status = "Failed"
        /\ snapshot.stage = "Failed"
        /\ snapshot.total_prs = 0
        /\ hist.executed = <<>>
        /\ snapshot.error_message = Some(CannotAutoClone)

\* C17: in the report, the entry of a PR for which execute_pr returned Err
\* (at whatever step) has error_message set, review_exit_code = -1,
\* fix_exit_code = -1 and pushed = false; the entry of a PR for which it
\* returned Ok has no error_message, and has pushed = true exactly when
\* auto_push_enabled is set and git status showed changes
C17_ReportEntries ==
    \A i \in 1..Len(snapshot.report) :
        LET entry == snapshot.report[i]
        IN IF entry.number \in hist.completed
           THEN /\ entry.error_message = None
                /\ entry.pushed <=> (/\ settings.auto_push_enabled
                                     /\ entry.number \in hist.dirty)
           ELSE /\ entry.error_message.some
                /\ entry.review_exit_code = -1
                /\ entry.fix_exit_code = -1
                /\ entry.pushed = FALSE

\* one PR failed at the save of the engine state, after its push; the other
\* succeeded and was pushed
C17_Witness ==
    \E i, j \in 1..Len(snapshot.report) :
        /\ snapshot.report[i].error_message = Some(WriteError("state"))
        /\ snapshot.report[i].number \in hist.pushed
        /\ snapshot.report[j].error_message = None
        /\ snapshot.report[j].pushed

\* C18: a run_workflow started after a crash of run_workflow enters
\* execute_pr for no PR that execute_pr had returned Ok for in the run
\* that crashed
C18_NoReprocessingAfterCrash ==
    run.mode = "workflow" =>
        \A i \in 1..Len(hist.executed) :
            hist.executed[i] \notin hist.interrupted

\* a command of run_workflow or of execute_pr is running or about to run
InRunWorkflowOrExecutePr ==
    \/ wf_pc \in {"validate_tools", "prepare_repo", "sync_repo", "list_prs",
                  "execute_pr", "checkout", "review", "review_fallback",
                  "fix", "push"}
    \/ wf_pc = "final_checkout" /\ run.mode = "workflow"

\* the snapshot file holds the snapshot of the run (its log_lines apart,
\* which are not part of this snapshot) wherever a command of run_workflow
\* or execute_pr runs, with the results of the PRs done so far in its report
SnapshotFileIsCurrent ==
    /\ InRunWorkflowOrExecutePr => snapshot_file = snapshot
    /\ (run.mode = "workflow" /\ wf_pc = "execute_pr") =>
           Len(snapshot_file.report) = run.ordinal - 1
    /\ (run.mode = "workflow" /\ wf_pc = "final_checkout") =>
           Len(snapshot_file.report) = Len(run.new_prs)
    /\ WorkflowReturnedOk => snapshot_file = snapshot

\* C19: in run_workflow and execute_pr every stage and every result added
\* to the report has been saved by the time the next command runs, so the
\* snapshot file shows the stage the run is in; and a step that changes the
\* stage starts from a file that shows the stage and the report it changes
C19_StagePersistedBeforeNext ==
    [][/\ SnapshotFileIsCurrent'
       /\ (/\ run.mode = "workflow"
           /\ wf_pc /= "idle"
           /\ hist'.returned /= "crashed"
           /\ snapshot'.stage /= snapshot.stage) =>
              /\ snapshot_file.stage = snapshot.stage
              /\ snapshot_file.report = snapshot.report]_vars

\* the second PR of a run is being pushed: the file shows PushingChanges
\* and the result of the first PR
C19_Witness ==
    /\ run.mode = "workflow"
    /\ wf_pc = "push"
    /\ run.ordinal = 2
    /\ snapshot_file.stage = "PushingChanges"
    /\ Len(snapshot_file.report) = 1

\* C20: record_monthly_fixed_pr is called for a PR exactly when its review
\* and its fix succeeded and git push succeeded for it; never for a PR
\* whose tree was clean after the fix, never when auto_push_enabled is off
C20_RecordedIffPushed ==
    /\ hist.recorded = hist.pushed
    /\ hist.recorded \subseteq hist.dirty
    /\ hist.recorded \subseteq ToSet(hist.executed)
    /\ ~settings.auto_push_enabled => hist.recorded = {}
    /\ \A i \in 1..Len(snapshot.report) :
           LET entry == snapshot.report[i]
           IN (entry.number \in hist.completed /\ entry.number \in hist.recorded)
              => (/\ entry.review_exit_code = 0
                  /\ entry.fix_exit_code = 0
                  /\ entry.pushed)

\* one PR was pushed and recorded, another completed with a clean tree and
\* was not
C20_Witness ==
    /\ hist.recorded = {11}
    /\ hist.completed = {10, 11}
    /\ 10 \notin hist.dirty

(***************************************************************************)
(* Streaming: the claims.                                                  *)
(***************************************************************************)
\* the lines of a buffer: every second element, the others being newlines
BufferLines(buffer) == [i \in 1..(Len(buffer) \div 2) |-> buffer[2 * i - 1]]

\* the lines of a pipe that are in the channel, in the order of the channel
InChannel(pipe) ==
    LET sent == SelectSeq(st_chan, LAMBDA m : m.is_stdout = IsStdout(pipe))
    IN [i \in 1..Len(sent) |-> sent[i].line]

\* C21: in streaming mode, at every point of every interleaving of the two
\* readers, the buffer of a pipe followed by the lines of that pipe still in
\* the channel is what the reader of that pipe has read so far, in that
\* order; no line of the other pipe is among them
C21_StreamOrderKept ==
    st_pc /= "idle" =>
        \A pipe \in Pipes :
            /\ st_buf[pipe] = Buffer(BufferLines(st_buf[pipe]))
            /\ BufferLines(st_buf[pipe]) \o InChannel(pipe) =
                   SubSeq(st_call.proc[pipe], 1, st_pos[pipe])

\* both pipes delivered two lines, the readers took turns, and the call
\* returned both buffers in order
C21_Witness ==
    /\ st_pc = "returned"
    /\ st_call.proc.stdout = <<"one", "two">>
    /\ st_call.proc.stderr = <<"two", "one">>
    /\ st_buf["stdout"] = <<"one", "\n", "two", "\n">>
    /\ st_buf["stderr"] = <<"two", "\n", "one", "\n">>

\* the lines among what a pipe delivered, unreadable items apart
LinesWritten(pipe_output) ==
    SelectSeq(pipe_output, LAMBDA item : item /= Unreadable)

\* C22: when a streaming call returns, both readers have ended, and every
\* line the process wrote to stdout is in the stdout buffer and every line
\* it wrote to stderr is in the stderr buffer
C22_NoOutputLost ==
    st_pc = "returned" =>
        /\ st_done = Pipes
        /\ st_chan = <<>>
        /\ \A pipe \in Pipes :
               BufferLines(st_buf[pipe]) = LinesWritten(st_call.proc[pipe])

C24_NoNewPrsIsSuccess ==
    (WorkflowReturnedOk /\ run.new_prs = <<>>) =>
        /\ snapshot.status = "Succeeded"
        /\ snapshot.stage = "Completed"
        /\ snapshot.total_prs = 0
        /\ snapshot.report = <<>>
        /\ snapshot.error_message = None
        /\ snapshot.finished_at /= None
        /\ snapshot_file = snapshot
        /\ hist.executed = <<>>
        /\ hist.recorded = {}

\* the second run finds every open PR processed by the first
C24_Witness ==
    /\ WorkflowReturnedOk
    /\ run.new_prs = <<>>
    /\ hist.runs = 2
    /\ state.processed_pr_numbers = <<10, 11>>
    /\ snapshot.status = "Succeeded"
    /\ hist.executed = <<>>

\* run_single_pr_by_number has returned Ok(snapshot)
SingleReturnedOk ==
    /\ run.mode = "single"
    /\ wf_pc = "idle"
    /\ hist.returned = "Ok"

\* C25: run_single_pr_by_number(n) enters execute_pr for no PR but the one
\* numbered n, also when n is among the processed numbers of the engine
\* state; and when it returns Ok, execute_pr was entered once, for n, the
\* report holds the one entry of n, the engine state written is the state in
\* memory, its processed numbers are those of the start of the run, with n
\* when execute_pr returned Ok, in ascending order, and its entry of the
\* current month holds the set of the counter (every PR pushed in the run
\* among them)
C25_SinglePrRun ==
    run.mode = "single" =>
        /\ hist.executed \in {<<>>, <<run.pr_number>>}
        /\ wf_pc /= "idle" => PrNumbers(run.new_prs) = <<run.pr_number>>
        /\ SingleReturnedOk =>
            /\ hist.executed = <<run.pr_number>>
            /\ PrNumbers(snapshot.report) = <<run.pr_number>>
            /\ state_file = state
            /\ state.processed_pr_numbers =
                   Ascending(ToSet(hist.before.processed_pr_numbers)
                             \cup (hist.completed \cap {run.pr_number}))
            /\ counter.month_key = current_month_key(clock)
            /\ GetOrDefault(state.monthly_fixed_pr_numbers_by_month,
                            counter.month_key)
                   = Ascending(counter.pr_numbers)
            /\ hist.pushed \subseteq counter.pr_numbers

\* PR 10 was processed by a run before, is executed again, and is pushed
C25_Witness ==
    /\ SingleReturnedOk
    /\ run.pr_number = 10
    /\ hist.before.processed_pr_numbers = <<10>>
    /\ hist.executed = <<10>>
    /\ hist.completed = {10}
    /\ hist.pushed = {10}
    /\ state_file.processed_pr_numbers = <<10>>
    /\ state_file.monthly_fixed_pr_numbers_by_month
           = (current_month_key(clock) :> <<10>>)

\* the values nested in a value through objects and arrays, the value itself
\* among them
RECURSIVE NestedValues(_)
NestedValues(value) ==
    {value} \cup
    (IF value.t = "object"
     THEN UNION {NestedValues(value.fields[k]) : k \in DOMAIN value.fields}
     ELSE IF value.t = "array"
     THEN UNION {NestedValues(value.a[i]) : i \in 1..Len(value.a)}
     ELSE {})

\* an object with a field named login whose value is a string equal to the
\* login but for the case of its letters
NamesLogin(value, login) ==
    /\ value.t = "object"
    /\ "login" \in DOMAIN value.fields
    /\ value.fields["login"].t = "string"
    /\ Len(value.fields["login"].s) = Len(login)
    /\ \A i \in 1..Len(login) :
           to_ascii_lowercase(value.fields["login"].s[i])
               = to_ascii_lowercase(login[i])

\* C26: value_contains_login(v, login) returns true exactly when an object
\* nested in v at any depth, through objects and arrays, has a field named
\* login whose value is a string equal to login but for the case of ASCII
\* letters; a string under a field of another name, or a string the login
\* is only a part of, does not make it true
C26_FindsLoginField ==
    login_pc = "returned" =>
        login_found = (\E o \in NestedValues(login_value) :
                           NamesLogin(o, login_arg))

\* the login in another case, in an object in an array in an object in an
\* array
C26_Witness ==
    /\ login_pc = "returned"
    /\ login_arg = Chars("b", "o")
    /\ login_value =
           JArr(<<JObj("user" :>
                       JArr(<<JObj("login" :> JStr(Chars("B", "O")))>>))>>)
    /\ login_found

\* the PR numbers record_monthly_fixed_pr has returned true for under a
\* month key
RecordedUnder(month_key) ==
    {n \in 1..MaxCountedPr : TrueReturns(month_key, n) >= 1}

\* a call of the counter that rotates: count, record or sync (a step that
\* changes the counter or last_call with the wall clock as it was)
RotatingCall ==
    /\ clock' = clock
    /\ last_call'.op \in {"count", "record", "sync"}
    /\ <<counter, last_call, cnt_pc, true_returns,
         monthly_fixed_pr_numbers_by_month>>' /=
       <<counter, last_call, cnt_pc, true_returns,
         monthly_fixed_pr_numbers_by_month>>

\* C27: monthly_fixed_pr_count returns the number of PR numbers recorded
\* under the month key of the wall clock, and leaves the counter under that
\* key; a count, record or sync called when the key of the counter is not
\* that of the wall clock leaves the counter under the key of the wall
\* clock with nothing in its set from before (the set is empty, but for the
\* number a record inserts), so a count called then returns 0
C27_CountOfCurrentMonth ==
    [][RotatingCall =>
        /\ counter'.month_key = current_month_key(clock)
        /\ last_call'.op = "count" =>
               /\ last_call'.returns
                      = Cardinality(RecordedUnder(current_month_key(clock)))
               /\ last_call'.returns = Cardinality(counter'.pr_numbers)
        /\ counter.month_key /= current_month_key(clock) =>
               /\ counter'.pr_numbers =
                      (IF last_call'.op = "record"
                       THEN {last_call'.pr_number} ELSE {})
               /\ last_call'.op = "count" => last_call'.returns = 0]_vars

\* PR 1 was recorded, the month ended before the sync, and the count that
\* followed returned 0
C27_Witness ==
    /\ last_call = [op |-> "count", returns |-> 0]
    /\ cnt_pc = "recorded"
    /\ clock = FirstMonth + 1
    /\ counter = empty_for_current_month(FirstMonth + 1)
    /\ RecordedUnder(current_month_key(FirstMonth)) = {1}

\* a list of numbers in ascending order without a number twice
StrictlyAscending(numbers) ==
    \A i \in 1..Len(numbers) - 1 : numbers[i] < numbers[i + 1]

\* C28: a step changes the per-month mapping of the engine state only in
\* the entry of the month key of the wall clock, and only in a sync, which
\* leaves there the set of the counter in ascending order without
\* duplicates; the entry of every other key, a past month among them, is
\* there after the step as it was before, whatever record and sync are
\* called after a rollover
C28_SyncWritesCurrentMonthOnly ==
    [][/\ \A key \in DOMAIN monthly_fixed_pr_numbers_by_month
                        \cup DOMAIN monthly_fixed_pr_numbers_by_month' :
              key /= current_month_key(clock') =>
                  /\ key \in DOMAIN monthly_fixed_pr_numbers_by_month
                  /\ key \in DOMAIN monthly_fixed_pr_numbers_by_month'
                  /\ monthly_fixed_pr_numbers_by_month'[key]
                         = monthly_fixed_pr_numbers_by_month[key]
       /\ monthly_fixed_pr_numbers_by_month'
              /= monthly_fixed_pr_numbers_by_month => last_call'.op = "sync"
       /\ (RotatingCall /\ last_call'.op = "sync") =>
              LET key == current_month_key(clock)
              IN /\ key \in DOMAIN monthly_fixed_pr_numbers_by_month'
                 /\ StrictlyAscending(monthly_fixed_pr_numbers_by_month'[key])
                 /\ ToSet(monthly_fixed_pr_numbers_by_month'[key])
                        = counter'.pr_numbers
                 /\ counter'.pr_numbers =
                        (IF counter.month_key = key
                         THEN counter.pr_numbers ELSE {})]_vars

\* after a rollover PR 2 was recorded and synced; the entry of the month
\* before is as the sync of that month left it
C28_Witness ==
    /\ last_call.op = "sync"
    /\ clock = FirstMonth + 1
    /\ monthly_fixed_pr_numbers_by_month =
           (current_month_key(FirstMonth) :> <<1, 2>>)
           @@ (current_month_key(FirstMonth + 1) :> <<2>>)

\* a thread is between lock() and the drop of the guard
InCritical(t) == threads[t].pc \in {"rotate", "access"}

\* the PR numbers a record has returned true for under a month key, with
\* threads
LockedRecordedUnder(month_key) ==
    {n \in LockedPrs : TrueReturns(month_key, n) >= 1}

\* C29: a thread that is between lock() and the return of a counter call
\* holds the lock, so no two threads are there together, and the counter
\* does not change between the rotation of a call and its read or write;
\* for each month key and PR number at most one record call returns true,
\* and after any record call that took the lock one has; a count is never
\* more than the number of PR numbers recorded under its month key
C29_CounterMutualExclusion ==
    /\ [](/\ \A t \in Threads : InCritical(t) => lock_owner = t
          /\ \A pair \in DOMAIN true_returns : true_returns[pair] <= 1
          /\ (last_return.some /\ ~last_return.v.lock_err) =>
                 /\ last_return.v.op = "record" =>
                        TrueReturns(last_return.v.month_key,
                                    last_return.v.pr_number) = 1
                 /\ last_return.v.op = "count" =>
                        last_return.v.returns <=
                            Cardinality(LockedRecordedUnder(
                                            last_return.v.month_key)))
    /\ [][\A t \in Threads :
              (threads[t].pc = "access" /\ threads'[t].pc = "access")
                  => counter' = counter]_vars

\* record(1) of the worker began while main held the lock and returned
\* false; record(1) of main returned true (its sync is still to come)
C29_Witness ==
    /\ last_return.some
    /\ last_return.v.thread = "worker"
    /\ last_return.v.op = "record"
    /\ last_return.v.pr_number = 1
    /\ last_return.v.returns = FALSE
    /\ last_return.v.waited
    /\ ~last_return.v.lock_err
    /\ threads["main"] = [IdleThread EXCEPT !.owes_sync = TRUE]
    /\ counter.pr_numbers = {1}
    /\ clock = FirstMonth
    /\ LockedRecordedUnder(current_month_key(FirstMonth)) = {1}

\* C30: once the lock is poisoned it stays so, no thread panics in a call
\* of the counter, every call that returns has found lock() Err and returns
\* 0 for a count and false for a record, and no step (of initialize and
\* sync among them) changes the counter or the per-month mapping of the
\* engine state
C30_PoisonedLockIsNoOp ==
    [][poisoned =>
        /\ poisoned'
        /\ counter' = counter
        /\ monthly_fixed_pr_numbers_by_month'
               = monthly_fixed_pr_numbers_by_month
        /\ \A t \in Threads :
               threads'[t].pc = "panicked" => threads[t].pc = "panicked"
        /\ \A t \in Threads :
               (threads[t].pc = "lock" /\ threads'[t].pc /= "lock") =>
                   /\ threads'[t].pc = "idle"
                   /\ last_return'.some
                   /\ last_return'.v.thread = t
                   /\ last_return'.v.op = threads[t].op
                   /\ last_return'.v.lock_err
                   /\ last_return'.v.op = "count" =>
                          last_return'.v.returns = 0
                   /\ last_return'.v.op = "record" =>
                          last_return'.v.returns = FALSE]_vars

\* the worker panicked under the lock with PR 1 in the counter; record(2)
\* of main returned false and PR 2 is not in the counter
C30_Witness ==
    /\ poisoned
    /\ threads["worker"].pc = "panicked"
    /\ last_return.some
    /\ last_return.v.thread = "main"
    /\ last_return.v.op = "record"
    /\ last_return.v.pr_number = 2
    /\ last_return.v.lock_err
    /\ last_return.v.returns = FALSE
    /\ counter.pr_numbers = {1}
    /\ monthly_fixed_pr_numbers_by_month
           = (current_month_key(FirstMonth) :> <<1>>)

\* the steps of run_workflow up to the selection of the work list, in the
\* order of the orchestrator
StepsBeforeLoop ==
    <<"tools", "repo", "templates", "rollback", "fetch", "checkout", "pull",
      "list", "select">>

\* step next may be taken right after step prev
Follows(prev, next) ==
    \/ \E i \in 1..Len(StepsBeforeLoop) - 1 :
           prev = StepsBeforeLoop[i] /\ next = StepsBeforeLoop[i + 1]
    \/ prev = "select" /\ next \in {"execute_pr", "merge"}
    \/ prev = "execute_pr" /\ next \in {"execute_pr", "final_checkout"}
    \/ prev = "final_checkout" /\ next = "merge"
    \/ prev = "merge" /\ next = "persist"

\* C31 as stated: run_workflow takes every step only after the step before
\* it succeeded
C31_EachStepAfterSuccess ==
    run.mode = "workflow" =>
        \A i \in 1..Len(hist.trail) - 1 : hist.trail[i].ok

\* C31, amended: run_workflow takes its steps in the order tools, repository,
\* templates, rollback, fetch, checkout, pull, list, select, execute_pr for
\* each PR of the work list, checkout of the default branch, merge, persist,
\* starting with the first and skipping none (but the loop and the checkout
\* when the work list is empty); each step up to the selection, and the
\* persisting after the merge, is taken only after the step before it
\* succeeded, while the next execute_pr and the checkout are taken whatever
\* execute_pr returned, and the merge whatever the checkout returned
C31_StepsInOrder ==
    run.mode = "workflow" =>
        /\ hist.trail /= <<>> => hist.trail[1].step = "tools"
        /\ \A i \in 1..Len(hist.trail) - 1 :
               /\ Follows(hist.trail[i].step, hist.trail[i + 1].step)
               /\ hist.trail[i].step \notin {"execute_pr", "final_checkout"}
                      => hist.trail[i].ok
               /\ hist.trail[i].step = "select" =>
                      (hist.trail[i + 1].step = "merge") = (run.new_prs = <<>>)
               /\ hist.trail[i + 1].step = "final_checkout" =>
                      Len(hist.executed) = Len(run.new_prs)
        /\ Len(SelectSeq(hist.trail, LAMBDA e : e.step = "execute_pr"))
               \in {Len(hist.executed), Len(hist.executed) - 1}
        /\ WorkflowReturnedOk =>
               hist.trail[Len(hist.trail)] = Step("persist", TRUE)

\* a run whose first PR failed and whose checkout of the default branch
\* failed went on to the second PR, to the merge and to the end
C31_Witness ==
    /\ WorkflowReturnedOk
    /\ hist.trail = Passed(StepsBeforeLoop)
                        \o <<Step("execute_pr", FALSE),
                             Step("execute_pr", TRUE),
                             Step("final_checkout", FALSE),
                             Step("merge", TRUE), Step("persist", TRUE)>>

(***************************************************************************)
(* C32: the fallback of the review command                                 *)
(***************************************************************************)

\* the review commands execute_pr has run for the PR in hand
Reviews == SelectSeq(hist.calls, LAMBDA c : c.op = "review")

\* codex refused the review command: a prompt was given together with --base
PromptConflict(call) ==
    /\ ~call.ok
    /\ call.proc = ProcConflict
    /\ Contains(call.command, <<"codex", "review">>)
    /\ Contains(call.command, <<"--base">>)

\* the review command with nothing after the base branch
BaseOnly == <<"codex", "review", "--base">> \o sh_quote(settings.default_branch)

\* the PR in hand has failed
PrFailed == wf_pc = "pr_done" /\ run.pr_result.v.tag = "Err"

\* C32: the review command of a PR is run at most twice; a second time only
\* after the first failed with the prompt conflict, and then as
\* `codex review --base <branch>` without the prompt; while that retry is
\* due nothing else happens; every other failed review, and a failed
\* retry, fail the PR
C32_ReviewRetriedOnceOnConflict ==
    LET n == Len(Reviews)
    IN /\ n <= 2
       /\ n = 2 =>
              /\ PromptConflict(Reviews[1])
              /\ Reviews[2].command = BaseOnly
              /\ ~Contains(Reviews[2].command, <<"\"Check this PR\"">>)
       /\ (n = 1 /\ PromptConflict(Reviews[1])) =>
              /\ wf_pc = "review_fallback"
              /\ hist.calls = Reviews
       /\ (n = 1 /\ ~Reviews[1].ok /\ ~PromptConflict(Reviews[1])) =>
              /\ PrFailed
              /\ hist.calls = Reviews
       /\ (n = 2 /\ ~Reviews[2].ok) =>
              /\ PrFailed
              /\ hist.calls = Reviews

\* a review with a prompt ran into the conflict, and its retry without the
\* prompt failed as well: the PR has failed
C32_Witness ==
    /\ Len(Reviews) = 2
    /\ Reviews[1].command /= BaseOnly
    /\ Reviews[2].proc = ProcConflict
    /\ PrFailed

(***************************************************************************)
(* C33: the report of a PR                                                 *)
(***************************************************************************)

\* the places in the calls of the PR in hand where op was called
CallsOf(op) == {i \in 1..Len(hist.calls) : hist.calls[i].op = op}

\* C33: the report of a PR is written right after a review command that
\* succeeded and before the fix command is run, and once execute_pr has
\* returned after running the fix command the report has been written again
\* after it
C33_ReportAfterReviewAndAfterFix ==
    /\ \A w \in CallsOf("write_report"), f \in CallsOf("fix") :
           (\A v \in CallsOf("write_report") : w <= v) =>
               /\ w > 1
               /\ hist.calls[w - 1].op = "review"
               /\ hist.calls[w - 1].ok
               /\ w < f
    /\ \A f \in CallsOf("fix") : CallsOf("write_report") /= {}
    /\ (wf_pc = "pr_done" /\ CallsOf("fix") /= {}) =>
           \E w \in CallsOf("write_report"), f \in CallsOf("fix") : f < w

(***************************************************************************)
(* C34: the stages of one run_workflow run                                 *)
(***************************************************************************)

PrStages == {"ReviewingPr", "FixingPr", "PushingChanges"}
TerminalStages == {"Completed", "Failed"}

\* the place of a stage in a run
StageRank(stage) ==
    CASE stage = "Idle" -> 0
      [] stage = "SyncingRepo" -> 1
      [] stage = "LoadingPrs" -> 2
      [] stage = "ReviewingPr" -> 3
      [] stage = "FixingPr" -> 4
      [] stage = "PushingChanges" -> 5
      [] stage \in TerminalStages -> 6

\* a step of one run_workflow run: the run neither starts nor dies in it
StepOfWorkflowRun ==
    /\ run.mode = "workflow"
    /\ run'.mode = "workflow"
    /\ hist'.runs = hist.runs

\* from the stage s of the PR `pr` to the stage t of the PR `next`
StageMoves(s, pr, t, next) ==
    \/ t = s /\ (s \in PrStages => next = pr)
    \/ s \notin TerminalStages /\ t \in TerminalStages
    \/ s \notin PrStages /\ StageRank(s) < StageRank(t)
    \/ s \in PrStages /\ t \in PrStages /\ next = pr
                      /\ StageRank(t) = StageRank(s) + 1
    \/ s \in PrStages /\ t = "ReviewingPr" /\ next /= pr

\* C34: a run_workflow run that gets as far as a snapshot starts in
\* SyncingRepo, from the stage Idle of no snapshot; in the run the stage
\* moves forward only, SyncingRepo, LoadingPrs, then for each PR
\* ReviewingPr, FixingPr, PushingChanges in this order, none left out
\* before the next, ReviewingPr being entered again only for the next PR;
\* Completed and Failed are left by no step of the run
C34_StageMovesForward ==
    [][/\ (run'.mode = "workflow" /\ hist'.runs /= hist.runs) =>
              \/ snapshot'.stage = "SyncingRepo"
              \/ snapshot' = DefaultSnapshot /\ hist'.returned = "Err"
       /\ StepOfWorkflowRun =>
              StageMoves(snapshot.stage, snapshot.current_pr_number,
                         snapshot'.stage, snapshot'.current_pr_number)]_vars

\* the second PR of a run has reached PushingChanges and the first was
\* pushed
C34_Witness ==
    /\ run.mode = "workflow"
    /\ snapshot.stage = "PushingChanges"
    /\ snapshot.current_index = 2
    /\ hist.pushed /= {}

(***************************************************************************)
(* C35: the settings of a run                                              *)
(***************************************************************************)

\* C35: the settings a run has loaded pass validate_command_templates, also
\* when the settings file held a review template with `codex review --pr`
\* or a fix template that starts with `codex fix`, which load_settings has
\* then replaced by the defaults; no run fails in the validation of the
\* templates
C35_LoadedSettingsPassValidation ==
    /\ validate_command_templates(settings).tag = "Ok"
    /\ hist.failed_step /= "templates"
    /\ \A i \in 1..Len(hist.trail) :
           hist.trail[i].step = "templates" => hist.trail[i].ok
    /\ hist.migrated =>
           \/ settings.review_command_template = DefaultReviewTemplate
           \/ settings.fix_command_template = DefaultFixTemplate

\* a run whose settings file had templates that load_settings replaced has
\* passed the validation of the templates
C35_Witness ==
    /\ hist.migrated
    /\ \E i \in 1..Len(hist.trail) : hist.trail[i] = Step("templates", TRUE)

(***************************************************************************)
(* C36: the engine state file of a run that fails before the PRs           *)
(***************************************************************************)

\* the steps of run_workflow before the selection of the PRs
StepsBeforeSelection == {"tools", "repo", "templates", "sync", "list"}

\* C36: when run_workflow has failed in the validation of the tools, the
\* preparation of the repository, the validation of the templates, the sync
\* of the repository or the listing of the PRs, the engine state file is
\* what it was when the run started
C36_EarlyFailureKeepsStateFile ==
    (run.mode = "workflow" /\ hist.failed_step \in StepsBeforeSelection) =>
        /\ wf_pc = "idle"
        /\ hist.executed = <<>>
        /\ state_file = hist.before

\* the second run fails at the listing of the PRs; the first run has left
\* a processed PR and its time in the engine state file
C36_Witness ==
    /\ run.mode = "workflow"
    /\ hist.failed_step = "list"
    /\ hist.runs = 2
    /\ state_file.processed_pr_numbers /= <<>>
    /\ state_file.last_run_at /= None

(***************************************************************************)
(* C37: the exit codes of a PrExecutionResult                              *)
(***************************************************************************)

\* the exit codes of the entries of a report
ExitCodes(report) ==
    {<<report[i].review_exit_code, report[i].fix_exit_code>> :
         i \in 1..Len(report)}

\* the entries of a report without an error_message
WithoutError(report) == SelectSeq(report, LAMBDA e : e.error_message = None)

\* C37: a review or fix command of execute_pr that exits non-zero has
\* failed; the PrExecutionResult that execute_pr returns, and every entry
\* without an error_message of the report in memory and in the snapshot
\* file, has review_exit_code = 0 and fix_exit_code = 0; the exit codes of
\* an entry are (0, 0) or (-1, -1); and the condition under which the PR is
\* counted for the month is that of pushed
C37_OkResultsHaveZeroExitCodes ==
    /\ \A i \in 1..Len(hist.calls) :
           hist.calls[i].op \in {"review", "fix"} =>
               (hist.calls[i].ok <=> hist.calls[i].proc.status.code = Some(0))
    /\ (run.pr_result.some /\ run.pr_result.v.tag = "Ok") =>
           LET result == run.pr_result.v.v
           IN /\ result.error_message = None
              /\ result.review_exit_code = 0
              /\ result.fix_exit_code = 0
              /\ CountsAsFixed(result.review_exit_code, result.fix_exit_code,
                               result.pushed) <=> result.pushed
    /\ \A report \in {snapshot.report, snapshot_file.report} :
           /\ ExitCodes(report) \subseteq {<<0, 0>>, <<-1, -1>>}
           /\ ExitCodes(WithoutError(report)) \subseteq {<<0, 0>>}

\* the report of a run has an entry of a PR that was reviewed and fixed with
\* nothing to push, and an entry of a PR that failed
C37_Witness ==
    /\ hist.returned = "Ok"
    /\ snapshot_file = snapshot
    /\ \E i, j \in 1..Len(snapshot.report) :
           /\ snapshot.report[i].error_message = None
           /\ ~snapshot.report[i].pushed
           /\ snapshot.report[j].error_message /= None
    /\ ExitCodes(snapshot.report) = {<<0, 0>>, <<-1, -1>>}

(***************************************************************************)
(* C38: the processed numbers a run_workflow run leaves                    *)
(***************************************************************************)

\* the PRs of the run for which execute_pr returned Err
FailedPrs == ToSet(hist.executed) \ hist.completed

\* run_workflow has saved the engine state after its loop over new_prs
StateSavedAfterLoop ==
    /\ run.mode = "workflow"
    /\ wf_pc = "idle"
    /\ \E i \in 1..Len(hist.trail) : hist.trail[i] = Step("merge", TRUE)
    /\ hist.executed /= <<>>
    /\ state_file = state

\* the step of run_workflow that selects the work list
SelectsWorkList ==
    /\ run.mode = "workflow"
    /\ wf_pc = "list_prs"
    /\ \E i \in 1..Len(hist'.trail) : hist'.trail[i] = Step("select", TRUE)

\* the processed numbers of the engine state file after the loop
ProcessedAfterLoop ==
    StateSavedAfterLoop =>
        /\ state_file.processed_pr_numbers =
               Ascending(ToSet(hist.before.processed_pr_numbers)
                         \cup hist.completed)
        /\ FailedPrs \cap ToSet(state_file.processed_pr_numbers) = {}

\* the PRs that failed in the run before, in the work list selected
FailedSelectedAgain ==
    SelectsWorkList =>
        \A n \in hist.failed_before \cap run'.open :
            \/ n \in ToSet(PrNumbers(run'.new_prs))
            \/ Len(run'.new_prs) = settings.max_prs_per_run

\* C38: once run_workflow has saved the engine state after its loop, the
\* processed numbers of the file are those the file had when the run
\* started and the PRs execute_pr returned Ok for, and none for which it
\* returned Err; and a PR for which execute_pr returned Err in the
\* run_workflow run before is in the work list this run selects when it is
\* among the open PRs, unless the list is full without it
C38_ProcessedIsBeforePlusSucceeded ==
    [](ProcessedAfterLoop) /\ [][FailedSelectedAgain]_vars

\* PR 10 succeeded in the first run and PR 11 failed, and the engine state
\* was saved with 10 alone; the second run has selected PR 11
C38_Witness ==
    /\ run.mode = "workflow"
    /\ wf_pc = "execute_pr"
    /\ hist.failed_before = {11}
    /\ hist.before.processed_pr_numbers = <<10>>
    /\ state_file = hist.before
    /\ PrNumbers(run.new_prs) = <<11>>

(***************************************************************************)
(* C39: the snapshot a run returns                                         *)
(***************************************************************************)

\* run_workflow or run_single_pr_by_number has returned Ok(snapshot)
RunReturnedOk ==
    /\ run.mode \in {"workflow", "single"}
    /\ wf_pc = "idle"
    /\ hist.returned = "Ok"

\* C39: when run_workflow or run_single_pr_by_number has returned
\* Ok(snapshot), the snapshot file holds that snapshot, its status is
\* Succeeded or Failed, its stage is Completed when the status is Succeeded
\* and Failed when it is Failed, finished_at is set, and error_message is
\* set exactly when the status is Failed
C39_ReturnedSnapshotIsTerminal ==
    RunReturnedOk =>
        /\ snapshot_file = snapshot
        /\ snapshot.status \in {"Succeeded", "Failed"}
        /\ snapshot.stage = "Completed" <=> snapshot.status = "Succeeded"
        /\ snapshot.stage = "Failed" <=> snapshot.status = "Failed"
        /\ snapshot.finished_at /= None
        /\ snapshot.error_message /= None <=> snapshot.status = "Failed"

\* run_workflow has returned the snapshot of a run in which one PR failed
\* and one succeeded
C39_Witness ==
    /\ RunReturnedOk
    /\ run.mode = "workflow"
    /\ Len(snapshot.report) = 2
    /\ snapshot.status = "Failed"
    /\ snapshot.error_message = Some(<<"1", " PR(s) failed">>)
    /\ snapshot_file = snapshot

====
